---- MODULE Spec2Model ----
(***************************************************************************)
(* Model of the translation engine of sanity-plugin-translate:             *)
(* TranslationService.ts (collector mapFieldsToTranslate, rewriter         *)
(* replaceTranslations, translateJSONData, reference resolution),          *)
(* blockContentUtils (rich-text detection, collection and write-back) and  *)
(* promiseUtils.processPromisesInChunks.                                   *)
(*                                                                         *)
(* Encoding of JavaScript values.  A document tree is a tagged record:     *)
(*   [t |-> "str", s |-> <<chars>>]   string, a sequence of characters     *)
(*   [t |-> "num"], [t |-> "null"], [t |-> "undef"]                        *)
(*   [t |-> "obj", e |-> <<[k |-> key, v |-> node], ...>>]  (entry order)  *)
(*   [t |-> "arr", e |-> <<node, ...>>]                                    *)
(* Property names are TLA+ strings.  A string value is a sequence whose    *)
(* elements are single characters; identifiers (type names, document ids,  *)
(* mark names) and markup tags are written as one symbol each.  A dotted   *)
(* path "a.0.b" is the sequence of its segments <<"a","0","b">>.           *)
(***************************************************************************)
EXTENDS Integers, Sequences, FiniteSets, TLC

----------------------------------------------------------------------------
(* JavaScript values *)

Str(s) == [t |-> "str", s |-> s]
Num    == [t |-> "num"]
Null   == [t |-> "null"]
Undef  == [t |-> "undef"]
Obj(e) == [t |-> "obj", e |-> e]
Arr(e) == [t |-> "arr", e |-> e]
P(k, v) == [k |-> k, v |-> v]

IsStr(n) == n.t = "str"
IsArr(n) == n.t = "arr"
IsObj(n) == n.t = "obj"
\* typeof n === 'object' (true of null, of arrays and of objects)
TypeofObject(n) == n.t \in {"obj", "arr", "null"}
Nullish(n) == n.t \in {"null", "undef"}
\* JavaScript truthiness
Truthy(n) ==
  CASE n.t = "str" -> n.s # <<>>
    [] n.t \in {"null", "undef"} -> FALSE
    [] OTHER -> TRUE

\* Array index i (1-based here) as the property name JavaScript gives it
IdxKey(i) == ToString(i - 1)

\* Object.entries(n) for an object or an array
Entries(n) ==
  IF IsObj(n) THEN n.e
  ELSE IF IsArr(n) THEN [i \in 1..Len(n.e) |-> P(IdxKey(i), n.e[i])]
  ELSE <<>>

\* n[k]: the property k of n (undefined when absent or when n is a primitive)
GetIn(es, k) ==
  IF \E i \in 1..Len(es) : es[i].k = k
  THEN es[CHOOSE i \in 1..Len(es) : es[i].k = k].v ELSE Undef
Get(n, k) == GetIn(Entries(n), k)

\* n with property k set to v (an existing property keeps its position)
Put(n, k, v) ==
  IF IsArr(n)
  THEN Arr([i \in 1..Len(n.e) |-> IF IdxKey(i) = k THEN v ELSE n.e[i]])
  ELSE IF \E i \in 1..Len(n.e) : n.e[i].k = k
       THEN Obj([i \in 1..Len(n.e) |-> IF n.e[i].k = k THEN P(k, v) ELSE n.e[i]])
       ELSE Obj(Append(n.e, P(k, v)))

----------------------------------------------------------------------------
(* Strings: sequences of characters *)

WhiteSpace == {" ", "\t"}
UpperOf == [a |-> "A", b |-> "B", x |-> "X", y |-> "Y"]
LowerOf == [A |-> "a", B |-> "b", X |-> "x", Y |-> "y"]

RECURSIVE TrimStart(_)
TrimStart(s) ==
  IF s # <<>> /\ Head(s) \in WhiteSpace THEN TrimStart(Tail(s)) ELSE s
RECURSIVE TrimEnd(_)
TrimEnd(s) ==
  IF s # <<>> /\ s[Len(s)] \in WhiteSpace
  THEN TrimEnd(SubSeq(s, 1, Len(s) - 1)) ELSE s
\* String.prototype.trim
Trim(s) == TrimEnd(TrimStart(s))
\* s.trim() === ''
IsBlank(s) == Trim(s) = <<>>
ToUpperCase(s) ==
  [i \in 1..Len(s) |-> IF s[i] \in DOMAIN UpperOf THEN UpperOf[s[i]] ELSE s[i]]
ToLowerCase(s) ==
  [i \in 1..Len(s) |-> IF s[i] \in DOMAIN LowerOf THEN LowerOf[s[i]] ELSE s[i]]

\* Property names of the model that begin with an underscore
\* (key.startsWith('_'))
StartsWithUnderscore(k) ==
  k \in {"_type", "_key", "_id", "_ref", "_rev", "_translations"}

\* the set of the elements of a sequence
Range(seq) == {seq[i] : i \in 1..Len(seq)}

RECURSIVE Concat(_)
Concat(ss) == IF ss = <<>> THEN <<>> ELSE Head(ss) \o Concat(Tail(ss))

----------------------------------------------------------------------------
(* Configuration: src/api/consts.ts *)

BK(k) == [bare |-> TRUE, key |-> k, type |-> {}]
TK(ts, k) == [bare |-> FALSE, key |-> k, type |-> ts]

DEFAULT_TRANSLATABLE_FIELD_KEYS ==
  << BK("altText"), BK("label"), BK("text"), BK("title"), BK("seoTitle"),
     BK("description"), BK("subline"), BK("caption"), BK("emailSubject"),
     BK("isRequiredErrorMessage"), BK("errorTitle"),
     BK("actionButtonLabel"), BK("placeholder"), BK("featHeader"),
     BK("conHeader"), BK("proHeader"), BK("faqHeader"), BK("teaser"),
     BK("jobTitle"), BK("supportingText"), BK("statNumber"),
     TK({<<"form">>, <<"pageCategory">>, <<"category">>}, "name") >>

DEFAULT_TRANSLATABLE_ARRAY_FIELD_KEYS == {"keywords"}

(* Configuration: src/api/utils/fieldKeyManager.ts.  A fieldKeyConfig has  *)
(* the list customTranslatableFieldKeys and the names                      *)
(* excludeDefaultFieldKeys, which the code only tests with includes().     *)

\* no fieldKeyConfig was given
NoFieldKeyConfig ==
  [customTranslatableFieldKeys |-> <<>>, excludeDefaultFieldKeys |-> {}]

getMergedTranslatableFieldKeys(config) ==
  SelectSeq(DEFAULT_TRANSLATABLE_FIELD_KEYS \o config.customTranslatableFieldKeys,
            LAMBDA key : key.key \notin config.excludeDefaultFieldKeys)

BLOCK_CONTENT_TYPE == Str(<<"block">>)
SPAN_TYPE == Str(<<"span">>)
HEADER_STYLES == {<<"h1">>, <<"h2">>, <<"h3">>, <<"h4">>, <<"h5">>, <<"h6">>}

\* translatableFieldKeys.find((f) => typeof f === 'object' ? f.key === key : f === key)
\* the index of the first definition for key, 0 when there is none
FindFieldDefinition(keys, key) ==
  LET hits == {i \in 1..Len(keys) : keys[i].key = key}
  IN IF hits = {} THEN 0 ELSE CHOOSE i \in hits : \A j \in hits : i <= j

----------------------------------------------------------------------------
(* Rich-text detection: blockContentDetection.ts *)

IsBlockType(item) == Get(item, "_type") = BLOCK_CONTENT_TYPE

\* children.some((child) => child && child._type === SPAN_TYPE)
HasSpanChild(children) ==
  /\ IsArr(children)
  /\ \E c \in 1..Len(children.e) :
        Truthy(children.e[c]) /\ Get(children.e[c], "_type") = SPAN_TYPE

isBlockContent(array) ==
  /\ IsArr(array)
  /\ Len(array.e) > 0
  /\ \E i \in 1..Len(array.e) : Truthy(array.e[i]) /\ IsBlockType(array.e[i])
  /\ \E i \in 1..Len(array.e) :
        /\ Truthy(array.e[i]) /\ IsBlockType(array.e[i])
        /\ HasSpanChild(Get(array.e[i], "children"))

isValidSpan(child) ==
  Truthy(child) /\ Get(child, "_type") = SPAN_TYPE /\ IsStr(Get(child, "text"))

\* child.marks && child.marks.length > 0
NonEmptyArray(marks) == IsArr(marks) /\ Len(marks.e) > 0
HasMarks(child) == NonEmptyArray(Get(child, "marks"))

\* hasMarks || hasMarkDefs || hasMultipleSpans
NeedsHtml(children, markDefs) ==
  /\ IsArr(children)
  /\ \/ \E c \in 1..Len(children.e) : HasMarks(children.e[c])
     \/ NonEmptyArray(markDefs)
     \/ Len(children.e) > 1

shouldUseHtmlForBlock(block) ==
  /\ Truthy(block) /\ IsBlockType(block)
  /\ NeedsHtml(Get(block, "children"), Get(block, "markDefs"))

\* children.some((child) => child.marks && ...) reads a property of every
\* child up to the first one with marks: a null child before it is a TypeError
NullChildRead(children) ==
  /\ IsArr(children)
  /\ \E c \in 1..Len(children.e) :
        /\ Nullish(children.e[c])
        /\ \A d \in 1..(c - 1) : ~HasMarks(children.e[d])

shouldUseHtmlRaises(block) ==
  Truthy(block) /\ IsBlockType(block) /\ NullChildRead(Get(block, "children"))

----------------------------------------------------------------------------
(* Markup encoding: blockContentHtml.ts, convertBlockToHtml.  Every tag is *)
(* one symbol of the string; the data-block-key and data-markdefs          *)
(* attributes of the block tag are carried by the tag symbol.              *)

STANDARD_MARK_TAG ==
  [strong |-> "strong", em |-> "em", underline |-> "u", code |-> "code"]
  @@ ("strike-through" :> "s")

\* the opening tag the components of convertBlockToHtml render for a mark:
\* a semantic tag for a standard mark, <a data-markdef-key> for a mark that
\* names a markDef, <span data-mark> for primary/secondary/unknown marks
MarkOpenTag(mark, markDefKeys) ==
  IF mark \in DOMAIN STANDARD_MARK_TAG THEN "<" \o STANDARD_MARK_TAG[mark] \o ">"
  ELSE IF mark \in markDefKeys THEN "<a data-markdef-key=" \o mark \o ">"
  ELSE "<span data-mark=" \o mark \o ">"
MarkCloseTag(mark, markDefKeys) ==
  IF mark \in DOMAIN STANDARD_MARK_TAG THEN "</" \o STANDARD_MARK_TAG[mark] \o ">"
  ELSE IF mark \in markDefKeys THEN "</a>"
  ELSE "</span>"

\* the tag name of a block style: p for normal, the style name for h1..h6
BlockTagName(style) ==
  IF IsStr(style) /\ style.s \in HEADER_STYLES THEN style.s[1] ELSE "p"
BlockOpenTag(style) == "<" \o BlockTagName(style) \o ">"
BlockCloseTag(style) == "</" \o BlockTagName(style) \o ">"

KeysOfMarkDefs(markDefs) ==
  IF IsArr(markDefs)
  THEN {Get(markDefs.e[i], "_key").s[1] :
          i \in {j \in 1..Len(markDefs.e) : IsStr(Get(markDefs.e[j], "_key"))}}
  ELSE {}
MarkDefKeys(block) == KeysOfMarkDefs(Get(block, "markDefs"))

\* the marks of a span, as a sequence of mark names
MarkNames(marks) ==
  IF IsArr(marks) THEN [i \in 1..Len(marks.e) |-> marks.e[i].s[1]] ELSE <<>>
SpanMarks(span) == MarkNames(Get(span, "marks"))

RECURSIVE WrapMarks(_, _, _)
WrapMarks(marks, inner, markDefKeys) ==
  IF marks = <<>> THEN inner
  ELSE <<MarkOpenTag(Head(marks), markDefKeys)>>
       \o WrapMarks(Tail(marks), inner, markDefKeys)
       \o <<MarkCloseTag(Head(marks), markDefKeys)>>

SpanToHtml(span, markDefKeys) ==
  IF isValidSpan(span)
  THEN WrapMarks(SpanMarks(span), Get(span, "text").s, markDefKeys)
  ELSE <<>>

\* the block tag around the markup of the children
BlockToHtml(children, style, keys) ==
  <<BlockOpenTag(style)>>
  \o Concat([i \in 1..Len(children.e) |-> SpanToHtml(children.e[i], keys)])
  \o <<BlockCloseTag(style)>>

convertBlockToHtml(block) ==
  BlockToHtml(Get(block, "children"), Get(block, "style"), MarkDefKeys(block))

----------------------------------------------------------------------------
(* Collector state.  fields is fieldsToTranslate, arrays is                *)
(* arrayFieldsToTranslate, bcm is the module-level blockContentMap (in     *)
(* insertion order), uid counts the uuid() calls made so far, raised is    *)
(* set when the JavaScript code throws.                                    *)

CollectorState(bcm, uid) ==
  [fields |-> <<>>, arrays |-> <<>>, bcm |-> bcm, uid |-> uid, raised |-> FALSE]

Raise(st) == [st EXCEPT !.raised = TRUE]

\* uuid(): a key no earlier call returned, as a one-segment path
uuid(n) == <<"uuid-" \o ToString(n)>>

Field(key, value, context, isHtml) ==
  [key |-> key, value |-> value, context |-> context, isHtml |-> isHtml]

PushField(st, key, value) ==
  [st EXCEPT !.fields = Append(@, Field(key, value, Undef, FALSE))]

\* fieldsToTranslate.push({key: uuid(), ...}); blockContentMap.set(key, {...})
PushBlockItem(st, value, context, isHtml, fieldName, blockIndex, arrayPath, isHeader) ==
  [st EXCEPT
     !.fields = Append(@, Field(uuid(st.uid), value, context, isHtml)),
     !.bcm = Append(@, [key |-> uuid(st.uid), fieldName |-> fieldName,
                        blockIndex |-> blockIndex, context |-> context,
                        isHeader |-> isHeader, arrayPath |-> arrayPath,
                        isHtml |-> isHtml]),
     !.uid = @ + 1]

\* the first pass of processBlockContent: text, isNormal, isHeader of a block
BlockInfo(style, children) ==
  [text |-> IF IsArr(children)
            THEN Concat([i \in 1..Len(children.e) |->
                           IF isValidSpan(children.e[i])
                           THEN Get(children.e[i], "text").s ELSE <<>>])
            ELSE <<>>,
   isNormal |-> (style = Str(<<"normal">>)) \/ ~Truthy(style),
   isHeader |-> IsStr(style) /\ style.s \in HEADER_STYLES]
BlockInfoOf(block) == BlockInfo(Get(block, "style"), Get(block, "children"))

\* the blocks after blockIndex that are normal; blockContextMap has an entry
\* for exactly the elements of type block
NormalBlocksAfter(nestedArray, blockIndex) ==
  {i \in (blockIndex + 1)..Len(nestedArray.e) :
     IsBlockType(nestedArray.e[i]) /\ BlockInfoOf(nestedArray.e[i]).isNormal}
\* the text of the first of them
ContextFrom(nestedArray, later) ==
  IF later = {} THEN Undef
  ELSE Str(BlockInfoOf(nestedArray.e[CHOOSE i \in later : \A j \in later : i <= j]).text)

findContextForHeaderBlock(nestedArray, blockIndex) ==
  ContextFrom(nestedArray, NormalBlocksAfter(nestedArray, blockIndex))

\* whether the field definition found for key makes the field translatable
\* under an object of type objType, in the custom-block helpers
DefinitionAllows(keys, d, objType) ==
  d # 0 /\ (keys[d].bare \/ (IsStr(objType) /\ objType.s \in keys[d].type))
CustomIsTranslatable(keys, key, objType) ==
  DefinitionAllows(keys, FindFieldDefinition(keys, key), objType)

RECURSIVE processBlockContent(_, _, _, _, _)
RECURSIVE BlocksFrom(_, _, _, _, _, _)
RECURSIVE processCustomBlockType(_, _, _, _, _, _)
RECURSIVE processNestedObjectFields(_, _, _, _)

\* the spans of a simple block, from child c on
RECURSIVE SimpleSpansFrom(_, _, _, _, _, _, _)
SimpleSpansFrom(children, c, st, context, nestedKey, blockIndex, info) ==
  IF c > Len(children.e) THEN st
  ELSE SimpleSpansFrom(children, c + 1,
         IF isValidSpan(children.e[c])
         THEN PushBlockItem(st, Get(children.e[c], "text").s, context, FALSE,
                            nestedKey, blockIndex, info.arrayPath, info.isHeader)
         ELSE st,
         context, nestedKey, blockIndex, info)

\* the spans of one block of a rich-text array nested in a custom block
\* one child of a block of a rich-text array nested in a custom block
CustomSpan(child, text, st, fieldKey, contentBlockIndex, customBlockArrayPath) ==
  IF Get(child, "_type") = SPAN_TYPE /\ IsStr(text) /\ ~IsBlank(text.s)
  THEN PushBlockItem(st, text.s, Undef, FALSE, fieldKey,
                     contentBlockIndex, customBlockArrayPath, FALSE)
  ELSE st

RECURSIVE CustomSpansFrom(_, _, _, _, _, _)
CustomSpansFrom(children, c, st, fieldKey, contentBlockIndex, customBlockArrayPath) ==
  IF c > Len(children.e) THEN st
  ELSE IF Nullish(children.e[c]) THEN Raise(st)
  ELSE CustomSpansFrom(children, c + 1,
         CustomSpan(children.e[c], Get(children.e[c], "text"), st, fieldKey,
                    contentBlockIndex, customBlockArrayPath),
         fieldKey, contentBlockIndex, customBlockArrayPath)

CustomContentBlock(contentBlock, children, b, st, fieldKey, customBlockArrayPath) ==
  IF IsBlockType(contentBlock) /\ IsArr(children)
  THEN CustomSpansFrom(children, 1, st, fieldKey, b, customBlockArrayPath)
  ELSE st

RECURSIVE CustomBlocksFrom(_, _, _, _, _)
CustomBlocksFrom(fieldValue, b, st, fieldKey, customBlockArrayPath) ==
  IF st.raised \/ b > Len(fieldValue.e) THEN st
  ELSE IF Nullish(fieldValue.e[b]) THEN Raise(st)
  ELSE CustomBlocksFrom(fieldValue, b + 1,
         CustomContentBlock(fieldValue.e[b], Get(fieldValue.e[b], "children"),
                            b, st, fieldKey, customBlockArrayPath),
         fieldKey, customBlockArrayPath)

\* obj._type || ''
OrEmpty(type) == IF Truthy(type) THEN type ELSE Str(<<>>)

\* one entry of an object nested in a custom block
NestedObjectEntry(key, value, objType, basePath, st, keys) ==
  IF StartsWithUnderscore(key) THEN st
  ELSE IF IsStr(value) /\ ~IsBlank(value.s)
  THEN IF CustomIsTranslatable(keys, key, objType)
       THEN PushField(st, Append(basePath, key), value.s) ELSE st
  ELSE IF IsObj(value)
  THEN processNestedObjectFields(value, Append(basePath, key), st, keys)
  ELSE IF IsArr(value) /\ isBlockContent(value)
  THEN processBlockContent(value, key, Append(basePath, key), st, keys)
  ELSE st

RECURSIVE NestedObjectEntriesFrom(_, _, _, _, _)
NestedObjectEntriesFrom(obj, i, basePath, st, keys) ==
  IF st.raised \/ i > Len(obj.e) THEN st
  ELSE NestedObjectEntriesFrom(obj, i + 1, basePath,
         NestedObjectEntry(obj.e[i].k, obj.e[i].v, OrEmpty(Get(obj, "_type")),
                           basePath, st, keys),
         keys)

processNestedObjectFields(obj, basePath, st, keys) ==
  IF ~IsObj(obj) THEN st ELSE NestedObjectEntriesFrom(obj, 1, basePath, st, keys)

\* a translatable string field of a custom block
CustomStringField(blockType, fieldKey, fieldValue, here, st, keys) ==
  IF /\ CustomIsTranslatable(keys, fieldKey, blockType)
     /\ IsStr(fieldValue) /\ ~IsBlank(fieldValue.s)
  THEN PushField(st, here, fieldValue.s) ELSE st
\* a rich-text array held by a field of a custom block
CustomContentField(fieldKey, fieldValue, here, st) ==
  IF IsArr(fieldValue) /\ isBlockContent(fieldValue)
  THEN CustomBlocksFrom(fieldValue, 1, st, fieldKey, here) ELSE st
\* an object held by a field of a custom block
CustomObjectField(fieldValue, here, st, keys) ==
  IF IsObj(fieldValue) THEN processNestedObjectFields(fieldValue, here, st, keys)
  ELSE st
\* one entry of a custom block: the three cases in the order of the code
CustomEntry(blockType, fieldKey, fieldValue, here, st, keys) ==
  IF StartsWithUnderscore(fieldKey) THEN st
  ELSE CustomObjectField(fieldValue, here,
         CustomContentField(fieldKey, fieldValue, here,
           CustomStringField(blockType, fieldKey, fieldValue, here, st, keys)),
         keys)

RECURSIVE CustomEntriesFrom(_, _, _, _, _, _)
CustomEntriesFrom(block, i, blockIndex, nestedArrayPath, st, keys) ==
  IF st.raised \/ i > Len(block.e) THEN st
  ELSE CustomEntriesFrom(block, i + 1, blockIndex, nestedArrayPath,
         CustomEntry(Get(block, "_type"), block.e[i].k, block.e[i].v,
                     nestedArrayPath \o <<IdxKey(blockIndex), block.e[i].k>>,
                     st, keys),
         keys)

processCustomBlockType(block, blockIndex, nestedKey, nestedArrayPath, st, keys) ==
  CustomEntriesFrom(block, 1, blockIndex, nestedArrayPath, st, keys)

\* a block of type block: as markup when shouldUseHtmlForBlock, else span
\* by span
StandardBlock(block, b, isHeader, context, children, nestedKey, nestedArrayPath, st) ==
  IF shouldUseHtmlRaises(block) THEN Raise(st)
  ELSE IF shouldUseHtmlForBlock(block)
  THEN PushBlockItem(st, convertBlockToHtml(block), context, TRUE,
                     nestedKey, b, nestedArrayPath, isHeader)
  ELSE IF IsArr(children)
  THEN SimpleSpansFrom(children, 1, st, context, nestedKey, b,
                       [arrayPath |-> nestedArrayPath, isHeader |-> isHeader])
  ELSE st

\* the context of a block: for a header, the text of the next normal block
ContextOf(nestedArray, b, isHeader) ==
  IF isHeader THEN findContextForHeaderBlock(nestedArray, b) ELSE Undef

HeaderBlock(nestedArray, block, b, isHeader, nestedKey, nestedArrayPath, st) ==
  StandardBlock(block, b, isHeader, ContextOf(nestedArray, b, isHeader),
                Get(block, "children"), nestedKey, nestedArrayPath, st)

\* one element of the array in the second pass of processBlockContent
ProcessBlock(nestedArray, block, b, nestedKey, nestedArrayPath, st, keys) ==
  IF IsBlockType(block)
  THEN HeaderBlock(nestedArray, block, b, BlockInfoOf(block).isHeader,
                   nestedKey, nestedArrayPath, st)
  ELSE IF Truthy(Get(block, "_type")) /\ IsObj(block)
  THEN processCustomBlockType(block, b, nestedKey, nestedArrayPath, st, keys)
  ELSE st

\* the second pass of processBlockContent, from block b on
BlocksFrom(nestedArray, b, nestedKey, nestedArrayPath, st, keys) ==
  IF st.raised \/ b > Len(nestedArray.e) THEN st
  ELSE BlocksFrom(nestedArray, b + 1, nestedKey, nestedArrayPath,
         ProcessBlock(nestedArray, nestedArray.e[b], b, nestedKey,
                      nestedArrayPath, st, keys),
         keys)

\* block._type on a null or undefined element of the array is a TypeError
processBlockContent(nestedArray, nestedKey, nestedArrayPath, st, keys) ==
  IF \E i \in 1..Len(nestedArray.e) : Nullish(nestedArray.e[i])
  THEN Raise(st)
  ELSE BlocksFrom(nestedArray, 1, nestedKey, nestedArrayPath, st, keys)

RECURSIVE processNestedBlockContent(_, _, _, _, _)
RECURSIVE NestedKeysFrom(_, _, _, _, _)
NestedKeysFrom(nestedObject, i, currentPath, st, keys) ==
  IF st.raised \/ i > Len(Entries(nestedObject)) THEN st
  ELSE NestedKeysFrom(nestedObject, i + 1, currentPath,
         processNestedBlockContent(nestedObject, Entries(nestedObject)[i].k,
                                   currentPath, st, keys),
         keys)

\* object[key] on a null object is a TypeError
NestedValue(value, key, currentPath, st, keys) ==
  IF Nullish(value) THEN st
  ELSE IF IsArr(value) /\ isBlockContent(value)
  THEN processBlockContent(value, key, currentPath, st, keys)
  ELSE IF TypeofObject(value)
  THEN NestedKeysFrom(value, 1, currentPath, st, keys)
  ELSE st

processNestedBlockContent(object, key, path, st, keys) ==
  IF Nullish(object) THEN Raise(st)
  ELSE NestedValue(Get(object, key), key, Append(path, key), st, keys)

RECURSIVE mapFieldsToTranslate(_, _, _, _, _, _)
\* typeof fieldDefinition === 'string' ? parentType
\*                                     : fieldDefinition.type.includes(parentType)
IsTranslatable(keys, d, parentType) ==
  /\ d # 0
  /\ IF keys[d].bare THEN Truthy(parentType)
     ELSE IsStr(parentType) /\ parentType.s \in keys[d].type

\* value?._type ?? parentType
NestedType(type, parentType) == IF Nullish(type) THEN parentType ELSE type

\* the recursion into an object or array, after its nested rich text was
\* collected into stn
MapNested(value, parentType, currentPath, stn, keys, arrayKeys) ==
  IF stn.raised THEN stn
  ELSE mapFieldsToTranslate(value, NestedType(Get(value, "_type"), parentType),
                            currentPath, stn, keys, arrayKeys)

\* one entry of Object.entries(data)
MapEntry(key, value, parentType, path, st, keys, arrayKeys) ==
  IF key = "_translations" THEN st
  ELSE IF IsArr(value) /\ isBlockContent(value)
  THEN processBlockContent(value, key, Append(path, key), st, keys)
  ELSE IF IsArr(value) /\ key \in arrayKeys
  THEN [st EXCEPT !.arrays = Append(@, [key |-> key, value |-> value])]
  ELSE IF TypeofObject(value)
  THEN MapNested(value, parentType, Append(path, key),
                 processNestedBlockContent(value, key, path, st, keys),
                 keys, arrayKeys)
  ELSE IF /\ IsTranslatable(keys, FindFieldDefinition(keys, key), parentType)
          /\ IsStr(value) /\ ~IsBlank(value.s)
  THEN PushField(st, Append(path, key), value.s)
  ELSE st

RECURSIVE MapEntriesFrom(_, _, _, _, _, _, _)
MapEntriesFrom(data, i, parentType, path, st, keys, arrayKeys) ==
  IF st.raised \/ i > Len(Entries(data)) THEN st
  ELSE MapEntriesFrom(data, i + 1, parentType, path,
         MapEntry(Entries(data)[i].k, Entries(data)[i].v, parentType, path,
                  st, keys, arrayKeys),
         keys, arrayKeys)

mapFieldsToTranslate(data, parentType, path, st, keys, arrayKeys) ==
  IF ~(TypeofObject(data) /\ data # Null) THEN st
  ELSE MapEntriesFrom(data, 1, parentType, path, st, keys, arrayKeys)

----------------------------------------------------------------------------
(* Markup decoding: parseHtmlToSpans and parseHtmlToBlockStructure of the  *)
(* htmlparser2 version of blockContentHtml.ts                              *)

HTML_TO_MARK_MAP ==
  [strong |-> "strong", b |-> "strong", em |-> "em", i |-> "em",
   u |-> "underline", s |-> "strike-through", code |-> "code",
   primary |-> "primary", secondary |-> "secondary"]

\* the mark names that occur in the documents of the model: keys of markDefs
\* and custom marks
MarkDefKeyNames == {"k1", "k2"}
CustomMarkNames == {"primary", "secondary", "highlight"}
BlockTagNames == {"p", "h1", "h2", "h3", "h4", "h5", "h6"}

\* what htmlparser2 reports for a tag symbol: its name, whether it opens,
\* and the data-markdef-key or data-mark attribute it carries
TagTable ==
  UNION {
    {[tok |-> "<" \o n \o ">", open |-> TRUE, name |-> n, attr |-> ""] :
       n \in DOMAIN HTML_TO_MARK_MAP \cup BlockTagNames},
    {[tok |-> "</" \o n \o ">", open |-> FALSE, name |-> n, attr |-> ""] :
       n \in DOMAIN HTML_TO_MARK_MAP \cup BlockTagNames \cup {"a", "span"}},
    {[tok |-> "<a data-markdef-key=" \o k \o ">", open |-> TRUE, name |-> "a",
      attr |-> k] : k \in MarkDefKeyNames},
    {[tok |-> "<span data-mark=" \o m \o ">", open |-> TRUE, name |-> "span",
      attr |-> m] : m \in CustomMarkNames} }

IsTag(tok) == \E r \in TagTable : r.tok = tok
TagOf(tok) == CHOOSE r \in TagTable : r.tok = tok

\* html.replace(/<[^>]*>/g, ''): the text of a markup string
StripTags(html) == SelectSeq(html, LAMBDA c : ~IsTag(c))

ParserState == [spans |-> <<>>, currentText |-> <<>>, currentMarks |-> <<>>]

createSpan(ps) ==
  [ps EXCEPT
     !.spans = IF ~IsBlank(ps.currentText)
               THEN Append(@, [text |-> ps.currentText, marks |-> ps.currentMarks])
               ELSE @,
     !.currentText = <<>>]

\* the mark an opening tag adds to currentMarks
PushMark(ps1, tag) ==
  IF tag.name = "a" /\ tag.attr # ""
  THEN [ps1 EXCEPT !.currentMarks = Append(@, tag.attr)]
  ELSE IF tag.name = "span" /\ tag.attr # ""
  THEN [ps1 EXCEPT !.currentMarks = Append(@, tag.attr)]
  ELSE IF tag.name \in DOMAIN HTML_TO_MARK_MAP
  THEN [ps1 EXCEPT !.currentMarks = Append(@, HTML_TO_MARK_MAP[tag.name])]
  ELSE ps1

onopentag(ps, tag) ==
  PushMark(IF ps.currentText # <<>> THEN createSpan(ps) ELSE ps, tag)

StandardMarkValues == {HTML_TO_MARK_MAP[n] : n \in DOMAIN HTML_TO_MARK_MAP}

\* currentMarks.find((mark) => mark is in found), then splice(indexOf(it), 1)
RemoveAt(marks, at) ==
  [i \in 1..(Len(marks) - 1) |-> IF i < at THEN marks[i] ELSE marks[i + 1]]
RemoveFirst(marks, found) ==
  IF \A i \in 1..Len(marks) : marks[i] \notin found THEN marks
  ELSE RemoveAt(marks, CHOOSE i \in 1..Len(marks) :
                         /\ marks[i] \in found
                         /\ \A j \in 1..(i - 1) : marks[j] \notin found)

\* for </a> the first mark that is no standard mark and does not start with
\* primary or secondary; for </span> the first mark primary or secondary;
\* for a semantic tag its mark
PopMark(ps1, tag) ==
  IF tag.name = "a"
  THEN [ps1 EXCEPT !.currentMarks =
          RemoveFirst(@, {@[i] : i \in 1..Len(@)} \ StandardMarkValues)]
  ELSE IF tag.name = "span"
  THEN [ps1 EXCEPT !.currentMarks = RemoveFirst(@, {"primary", "secondary"})]
  ELSE IF tag.name \in DOMAIN HTML_TO_MARK_MAP
  THEN [ps1 EXCEPT !.currentMarks = RemoveFirst(@, {HTML_TO_MARK_MAP[tag.name]})]
  ELSE ps1

onclosetag(ps, tag) == PopMark(createSpan(ps), tag)

ontag(ps, tag) == IF tag.open THEN onopentag(ps, tag) ELSE onclosetag(ps, tag)

\* the parser events of html from symbol i on
RECURSIVE ParseFrom(_, _, _)
ParseFrom(html, i, ps) ==
  IF i > Len(html) THEN ps
  ELSE ParseFrom(html, i + 1,
         IF IsTag(html[i]) THEN ontag(ps, TagOf(html[i]))
         ELSE [ps EXCEPT !.currentText = Append(@, html[i])])

\* the reduce that merges consecutive spans with the same marks
RECURSIVE MergeSpans(_, _)
MergeSpans(merged, rest) ==
  IF rest = <<>> THEN merged
  ELSE IF merged # <<>> /\ merged[Len(merged)].marks = Head(rest).marks
  THEN MergeSpans([merged EXCEPT ![Len(merged)].text = @ \o Head(rest).text],
                  Tail(rest))
  ELSE MergeSpans(Append(merged, Head(rest)), Tail(rest))

\* a new span object; its _key is a fresh uuid(), written as one symbol
NewSpan(sp) ==
  Obj(<<P("_type", SPAN_TYPE), P("_key", Str(<<"uuid">>)), P("text", Str(sp.text)),
        P("marks", Arr([i \in 1..Len(sp.marks) |-> Str(<<sp.marks[i]>>)]))>>)

NewSpans(merged) == [i \in 1..Len(merged) |-> NewSpan(merged[i])]

parseHtmlToSpans(html) ==
  NewSpans(MergeSpans(<<>>,
    SelectSeq(createSpan(ParseFrom(html, 1, ParserState)).spans,
              LAMBDA sp : ~IsBlank(sp.text))))

\* translatedHtml.replace(/^<p>|<\/p>$/g, '')
DropLastP(h1) ==
  IF h1 # <<>> /\ h1[Len(h1)] = "</p>" THEN SubSeq(h1, 1, Len(h1) - 1) ELSE h1
CleanHtml(html) ==
  DropLastP(IF html # <<>> /\ Head(html) = "<p>" THEN Tail(html) ELSE html)

\* the block rebuilt from translated markup.  The block tag written by
\* convertBlockToHtml carries the key, style and markDefs of originalBlock,
\* which the attribute parser reads back.
\* value || fallback
Or(value, fallback) == IF Truthy(value) THEN value ELSE fallback

parseHtmlToBlockStructure(translatedHtml, originalBlock) ==
  Put(Put(Put(Put(originalBlock,
                  "_key", Get(originalBlock, "_key")),
              "style", Or(Get(originalBlock, "style"), Str(<<"normal">>))),
          "markDefs", Or(Get(originalBlock, "markDefs"), Arr(<<>>))),
      "children", Arr(parseHtmlToSpans(CleanHtml(translatedHtml))))

----------------------------------------------------------------------------
(* Write-back of rich text: applyBlockContentTranslations *)

Has(translationMap, key) == key \in DOMAIN translationMap

\* the records of blockContentMap for this array, in insertion order
RelevantKeys(bcm, key, currentArrayPath) ==
  SelectSeq(bcm, LAMBDA item : item.arrayPath = currentArrayPath /\ item.fieldName = key)

\* blockTranslations.get(blockIndex): the span translations of one block
ValuesOf(translationMap, mine) ==
  [i \in 1..Len(mine) |-> translationMap[mine[i].key]]
BlockTranslations(relevant, translationMap, blockIndex) ==
  ValuesOf(translationMap,
           SelectSeq(relevant, LAMBDA item :
             /\ item.blockIndex = blockIndex /\ ~item.isHtml
             /\ Has(translationMap, item.key)))

\* blockHtmlTranslations.get(blockIndex): the last markup translation stored
BlockHtmlTranslations(relevant, translationMap, blockIndex) ==
  ValuesOf(translationMap,
           SelectSeq(relevant, LAMBDA item :
             /\ item.blockIndex = blockIndex /\ item.isHtml
             /\ Has(translationMap, item.key)))

\* block.children.forEach: each valid span takes the next translation
RECURSIVE ApplySpanTranslations(_, _, _, _)
ApplySpanTranslations(children, c, translations, translationIndex) ==
  IF c > Len(children) THEN children
  ELSE IF isValidSpan(children[c]) /\ translationIndex <= Len(translations)
  THEN ApplySpanTranslations(
         [children EXCEPT ![c] = Put(@, "text", Str(translations[translationIndex]))],
         c + 1, translations, translationIndex + 1)
  ELSE ApplySpanTranslations(children, c + 1, translations, translationIndex)

\* one block, given the markup translations and the span translations
\* stored for its index
ApplyTranslations(block, html, spans, children) ==
  IF ~Truthy(block) \/ ~TypeofObject(block) \/ ~IsBlockType(block) THEN block
  ELSE IF html # <<>>
  THEN IF html[Len(html)] # <<>>
       THEN parseHtmlToBlockStructure(html[Len(html)], block) ELSE block
  ELSE IF spans # <<>> /\ IsArr(children)
  THEN Put(block, "children", Arr(ApplySpanTranslations(children.e, 1, spans, 1)))
  ELSE block

ApplyToBlock(block, blockIndex, relevant, translationMap) ==
  ApplyTranslations(block,
                    BlockHtmlTranslations(relevant, translationMap, blockIndex),
                    BlockTranslations(relevant, translationMap, blockIndex),
                    Get(block, "children"))

ApplyToBlocks(value, relevant, translationMap) ==
  Arr([i \in 1..Len(value.e) |->
         ApplyToBlock(value.e[i], i, relevant, translationMap)])

applyBlockContentTranslations(value, key, currentArrayPath, translationMap, bcm) ==
  IF ~IsArr(value) THEN value
  ELSE ApplyToBlocks(value, RelevantKeys(bcm, key, currentArrayPath), translationMap)

----------------------------------------------------------------------------
(* The rewriter: replaceTranslations.  ctx holds the arguments that the    *)
(* recursion passes on unchanged: batchedArrayFieldTranslations,           *)
(* batchedTranslations, fieldsToTranslate, translationMap,                 *)
(* translatableArrayFieldKeys, and the module-level blockContentMap.       *)

\* fieldsToTranslate.find((f) => (f.key === key || f.key.endsWith(`.${key}`))
\*                               && f.value === value): its index, or 0
FindField(fields, key, value) ==
  LET hits == {i \in 1..Len(fields) :
                 /\ fields[i].key = <<key>>
                    \/ (Len(fields[i].key) >= 2 /\ fields[i].key[Len(fields[i].key)] = key)
                 /\ fields[i].value = value}
  IN IF hits = {} THEN 0 ELSE CHOOSE i \in hits : \A j \in hits : i <= j

\* fieldsToTranslate.findIndex((f) => f.key === field.key && f.value === field.value)
FindFieldIndex(fields, field) ==
  LET hits == {i \in 1..Len(fields) :
                 fields[i].key = field.key /\ fields[i].value = field.value}
  IN CHOOSE i \in hits : \A j \in hits : i <= j

\* the value written for a matched string field: the entry of the map, else
\* the element of batchedTranslations at the field's index (undefined past
\* its end); it is written whenever it is not null
ElementAt(batchedTranslations, translatedFieldIndex) ==
  IF translatedFieldIndex <= Len(batchedTranslations)
  THEN batchedTranslations[translatedFieldIndex] ELSE Undef
TranslationFor(ctx, field) ==
  IF Has(ctx.translationMap, field.key) THEN Str(ctx.translationMap[field.key])
  ELSE ElementAt(ctx.batchedTranslations, FindFieldIndex(ctx.fieldsToTranslate, field))

\* batchedArrayFieldTranslations.find((f) => f.key === key)?.value || value
ArrayTranslationFor(batched, key, value) ==
  IF \A i \in 1..Len(batched) : batched[i].key # key THEN value
  ELSE batched[CHOOSE i \in 1..Len(batched) :
                 /\ batched[i].key = key
                 /\ \A j \in 1..(i - 1) : batched[j].key # key].value

RECURSIVE replaceTranslations(_, _, _)
\* translation !== null ? translation : value
Written(translation, value) == IF translation # Null THEN translation ELSE value

\* a non-blank string: f is the index of the field found for it, or 0
ReplaceString(ctx, f, value) ==
  IF f = 0 THEN value
  ELSE Written(TranslationFor(ctx, ctx.fieldsToTranslate[f]), value)

\* an entry whose value is an array or an object; applied is the value
\* after applyBlockContentTranslations
ReplaceNested(ctx, currentPath, key, applied) ==
  IF IsArr(applied) /\ key \in ctx.translatableArrayFieldKeys
  THEN ArrayTranslationFor(ctx.batchedArrayFieldTranslations, key, applied)
  ELSE replaceTranslations(applied, ctx, currentPath)

ReplaceEntry(ctx, path, key, value) ==
  IF key = "_translations" THEN value
  ELSE IF TypeofObject(value)
  THEN ReplaceNested(ctx, Append(path, key), key,
         applyBlockContentTranslations(value, key, Append(path, key),
                                       ctx.translationMap, ctx.bcm))
  ELSE IF IsStr(value) /\ ~IsBlank(value.s)
  THEN ReplaceString(ctx, FindField(ctx.fieldsToTranslate, key, value.s), value)
  ELSE value

replaceTranslations(obj, ctx, path) ==
  IF ~(TypeofObject(obj) /\ obj # Null) THEN obj
  ELSE IF IsArr(obj)
  THEN Arr([i \in 1..Len(obj.e) |-> ReplaceEntry(ctx, path, IdxKey(i), obj.e[i])])
  ELSE Obj([i \in 1..Len(obj.e) |->
              P(obj.e[i].k, ReplaceEntry(ctx, path, obj.e[i].k, obj.e[i].v))])

----------------------------------------------------------------------------
(* The translation provider (deepl translateText), an external             *)
(* collaborator: it returns one trimmed translation per text, in order,    *)
(* and keeps markup tags; a call may also return nothing or raise.         *)

TranslationOf == [a |-> "x", b |-> "y", A |-> "X", B |-> "Y"]

ProviderTranslate(text) ==
  LET t == Trim(text)
  IN [i \in 1..Len(t) |->
        IF t[i] \in DOMAIN TranslationOf THEN TranslationOf[t[i]] ELSE t[i]]

\* a call returns the translations in the letter case of the texts ("ok")
\* or in lower case ("plain"), returns an empty list, or raises
ProviderOutcomes == {"ok", "plain", "nothing", "raise"}

\* translations of one call, per outcome
ProviderResult(texts, outcome) ==
  IF outcome = "ok" THEN [i \in 1..Len(texts) |-> ProviderTranslate(texts[i])]
  ELSE IF outcome = "plain"
  THEN [i \in 1..Len(texts) |-> ToLowerCase(ProviderTranslate(texts[i]))]
  ELSE <<>>

----------------------------------------------------------------------------
(* translateJSONData: the provider calls of one run, in the order the code *)
(* awaits them                                                             *)

BATCH_SIZE == 50

\* array.slice(i, i + size) for i = 0, size, 2*size, ...
RECURSIVE Chunks(_, _)
Chunks(seq, size) ==
  IF seq = <<>> THEN <<>>
  ELSE IF Len(seq) <= size THEN <<seq>>
  ELSE <<SubSeq(seq, 1, size)>> \o Chunks(SubSeq(seq, size + 1, Len(seq)), size)

\* Array.prototype.flat(): sub-arrays are spliced in, one level deep
Flat(nodes) ==
  Concat([i \in 1..Len(nodes) |-> IF IsArr(nodes[i]) THEN nodes[i].e ELSE <<nodes[i]>>])

\* the texts sent for one batch of whole-array fields: the flattened values
\* that are non-blank strings
TextsOf(kept) == [i \in 1..Len(kept) |-> kept[i].s]
ArrayBatchTexts(batch) ==
  TextsOf(SelectSeq(Flat([i \in 1..Len(batch) |->
                            IF IsArr(batch[i].value)
                            THEN Arr(Flat(batch[i].value.e)) ELSE batch[i].value]),
                    LAMBDA v : IsStr(v) /\ ~IsBlank(v.s)))

ArrayBatchCalls(batches) ==
  [i \in 1..Len(batches) |->
     [kind |-> "array", key |-> batches[i][1].key, items |-> <<>>,
      texts |-> ArrayBatchTexts(batches[i]), context |-> Undef]]
ArrayCalls(arrays) == ArrayBatchCalls(Chunks(arrays, BATCH_SIZE))

\* field.context is truthy
HasContext(field) == Truthy(field.context)

\* processItemsWithContext: one call per item whose value is not blank
ContextItemCalls(items) ==
  [i \in 1..Len(items) |->
     [kind |-> IF items[i].isHtml THEN "contextHtml" ELSE "context",
      key |-> "", items |-> <<items[i]>>, texts |-> <<items[i].value>>,
      context |-> items[i].context]]
ContextCalls(fields) ==
  ContextItemCalls(SelectSeq(fields, LAMBDA f : HasContext(f) /\ ~IsBlank(f.value)))

\* the text sent for a plain item without context: lower-cased when the
\* source is entirely upper-case
PlainTextToSend(original) ==
  IF original = ToUpperCase(original) THEN ToLowerCase(original) ELSE original

\* processItemsWithoutContext: markup items, then plain items, in batches
\* of 50; blank items are dropped and a batch left empty is skipped
BatchCalls(sent, html) ==
  [i \in 1..Len(sent) |->
     [kind |-> IF html THEN "html" ELSE "plain", key |-> "", items |-> sent[i],
      texts |-> [j \in 1..Len(sent[i]) |->
                   IF html THEN sent[i][j].value
                   ELSE PlainTextToSend(sent[i][j].value)],
      context |-> Undef]]
NonBlankOf(batches) ==
  [i \in 1..Len(batches) |-> SelectSeq(batches[i], LAMBDA f : ~IsBlank(f.value))]
NoContextCalls(fields, html) ==
  BatchCalls(SelectSeq(NonBlankOf(Chunks(
               SelectSeq(fields, LAMBDA f : ~HasContext(f) /\ f.isHtml = html),
               BATCH_SIZE)),
             LAMBDA b : b # <<>>), html)

ProviderCalls(fields, arrays) ==
  ArrayCalls(arrays) \o ContextCalls(fields)
  \o NoContextCalls(fields, TRUE) \o NoContextCalls(fields, FALSE)

\* the map entry stored for a plain item with context
ContextFormat(original, translated) ==
  SubSeq(original, 1, Len(original) - Len(TrimStart(original)))
  \o Trim(IF ToLowerCase(original) = original THEN ToLowerCase(translated)
          ELSE translated)
  \o SubSeq(original, Len(TrimEnd(original)) + 1, Len(original))

\* the map entry stored for a plain item without context
Recase(original, adjusted) ==
  IF original = ToUpperCase(original) THEN ToUpperCase(adjusted) ELSE adjusted
PlainFormat(original, translated) ==
  Recase(original,
         (IF original # <<>> /\ Head(original) = " " THEN <<" ">> ELSE <<>>)
         \o translated
         \o (IF original # <<>> /\ original[Len(original)] = " "
             THEN <<" ">> ELSE <<>>))

\* translationMap after translations.forEach(... translationMap.set ...)
RECURSIVE SetAll(_, _, _, _)
SetAll(translationMap, call, results, i) ==
  IF i > Len(results) \/ i > Len(call.items) THEN translationMap
  ELSE SetAll((call.items[i].key :>
                 IF call.kind = "plain"
                 THEN PlainFormat(call.items[i].value, results[i])
                 ELSE IF call.kind = "context"
                 THEN ContextFormat(call.items[i].value, results[i])
                 ELSE results[i]) @@ translationMap,
              call, results, i + 1)

\* translations[0].text of an empty result is a TypeError
CallRaises(call, outcome) ==
  \/ outcome = "raise"
  \/ outcome = "nothing" /\ call.kind \in {"context", "contextHtml"}

\* batchedTranslations: translationMap.get(field.key) || '' per field
BatchedTranslations(fields, translationMap) ==
  [i \in 1..Len(fields) |->
     IF Has(translationMap, fields[i].key) THEN Str(translationMap[fields[i].key])
     ELSE Str(<<>>)]

----------------------------------------------------------------------------
(* Reference resolution: findAllReferenceObjects, replaceRefId,            *)
(* loadDocumentTranslationsAndReplace, processPromisesInChunks             *)

\* the paths of the objects with _type === 'reference', in visiting order
RECURSIVE findAllReferenceObjects(_, _)
findAllReferenceObjects(obj, path) ==
  IF ~(IsObj(obj) \/ IsArr(obj)) THEN <<>>
  ELSE (IF IsObj(obj) /\ Get(obj, "_type") = Str(<<"reference">>)
        THEN <<path>> ELSE <<>>)
       \o Concat([i \in 1..Len(Entries(obj)) |->
                    findAllReferenceObjects(Entries(obj)[i].v,
                                            Append(path, Entries(obj)[i].k))])

\* variants of replaceRefId to compare it with: one that changes no id and
\* one that changes every id
KeepRefIds(obj, originalId, newId) == obj
RECURSIVE ReplaceEveryRefId(_, _, _)
ReplaceEveryRefId(obj, originalId, newId) ==
  IF obj.t = "arr"
  THEN Arr([i \in 1..Len(obj.e) |-> ReplaceEveryRefId(obj.e[i], originalId, newId)])
  ELSE IF obj.t # "obj" THEN obj
  ELSE Obj([i \in 1..Len(obj.e) |->
              IF obj.e[i].k = "_ref" THEN P("_ref", newId)
              ELSE P(obj.e[i].k, ReplaceEveryRefId(obj.e[i].v, originalId, newId))])

RECURSIVE replaceRefId(_, _, _)
replaceRefId(obj, originalId, newId) ==
  IF IsArr(obj)
  THEN Arr([i \in 1..Len(obj.e) |-> replaceRefId(obj.e[i], originalId, newId)])
  ELSE IF ~IsObj(obj) THEN obj
  ELSE Obj([i \in 1..Len(obj.e) |->
              IF obj.e[i].k = "_ref" /\ obj.e[i].v = originalId
              THEN P("_ref", newId)
              ELSE P(obj.e[i].k, replaceRefId(obj.e[i].v, originalId, newId))])

\* the node at a path of a tree (undefined when the path leaves the tree)
RECURSIVE GetPath(_, _)
GetPath(node, path) ==
  IF path = <<>> THEN node ELSE GetPath(Get(node, Head(path)), Tail(path))

\* The document store, as the translation query answers: the id of the
\* version of a document in the target language.  A document of the target
\* language is its own version; a document without one has no entry.
TranslatedVersion ==
  (<<"docA">> :> <<"docA-de">>) @@ (<<"docB">> :> <<"docB-de">>)
  @@ (<<"docA-de">> :> <<"docA-de">>) @@ (<<"docB-de">> :> <<"docB-de">>)

\* loadDocumentTranslationsAndReplace when the fetch answers: newId, or
\* undefined (also standing for the null returned without _translations)
loadDocumentTranslationsAndReplace(docId) ==
  IF IsStr(docId) /\ docId.s \in DOMAIN TranslatedVersion
  THEN Str(TranslatedVersion[docId.s]) ELSE Undef

CHUNK_SIZE == 3

\* a chunking that leaves out a last chunk shorter than size, to compare
\* chunkArray with
RECURSIVE chunkArrayWithoutRemainder(_, _)
chunkArrayWithoutRemainder(array, size) ==
  IF Len(array) < size THEN <<>>
  ELSE <<SubSeq(array, 1, size)>>
       \o chunkArrayWithoutRemainder(SubSeq(array, size + 1, Len(array)), size)
\* chunkArray of processPromisesInChunks:
\* for (i = 0; i < array.length; i += size) chunks.push(array.slice(i, i + size))
RECURSIVE chunkArray(_, _)
chunkArray(array, size) ==
  IF array = <<>> THEN <<>>
  ELSE <<SubSeq(array, 1, IF Len(array) < size THEN Len(array) ELSE size)>>
       \o chunkArray(SubSeq(array, (IF Len(array) < size THEN Len(array) ELSE size) + 1,
                            Len(array)), size)

\* Promise.allSettled of promises that have all settled: a promise is
\* [st |-> "pending" | "fulfilled" | "rejected", v |-> its value or reason]
allSettled(promises) ==
  [i \in 1..Len(promises) |->
     IF promises[i].st = "fulfilled"
     THEN [status |-> "fulfilled", value |-> promises[i].v]
     ELSE [status |-> "rejected", reason |-> promises[i].v]]

\* the indices of the promises of chunk c (1-based) among n promises
ChunkIndices(c, n) ==
  {i \in 1..n : (c - 1) * CHUNK_SIZE < i /\ i <= c * CHUNK_SIZE}
\* promiseChunks.length
NumChunks(n) == (n + CHUNK_SIZE - 1) \div CHUNK_SIZE

----------------------------------------------------------------------------
(* The module-level blockContentMap of blockContentContext.ts *)

\* a map that is not emptied, to compare clearBlockContentMap with
KeepBlockContentMap(bcm) == bcm
\* blockContentMap.clear()
clearBlockContentMap(bcm) == <<>>

----------------------------------------------------------------------------
(* Documents handed to translateDocument *)

Chars(s) == Str(s)
Id(s) == Str(<<s>>)
Span(text) == Obj(<<P("_type", SPAN_TYPE), P("text", Chars(text))>>)
MarkedSpan(text, marks) ==
  Obj(<<P("_type", SPAN_TYPE), P("text", Chars(text)),
        P("marks", Arr([i \in 1..Len(marks) |-> Id(marks[i])]))>>)
Block(style, children) ==
  Obj(<<P("_type", BLOCK_CONTENT_TYPE), P("style", Id(style)),
        P("children", Arr(children))>>)
Reference(id) == Obj(<<P("_type", Id("reference")), P("_ref", Id(id))>>)
Page(id, entries) ==
  Obj(<<P("_id", Id(id)), P("_type", Id("page")), P("language", Id("en"))>> \o entries)

\* two keyed strings of one batch
DocTitle == Page("p1", <<P("title", Chars(<<"a", "b">>)), P("seoTitle", Chars(<<"b">>))>>)
\* the typed key name under an object of a type of its set and under another
DocTyped ==
  Page("p2", <<P("hero", Obj(<<P("_type", Id("form")), P("name", Chars(<<"a", "b">>))>>)),
               P("aside", Obj(<<P("_type", Id("widget")), P("name", Chars(<<"a", "b">>))>>))>>)
\* a field that is null, at the top and below it
DocNull == Page("p3", <<P("title", Chars(<<"a">>)), P("image", Null)>>)
DocNullNested ==
  Page("p4", <<P("hero", Obj(<<P("_type", Id("hero")), P("title", Chars(<<"a">>)),
                               P("image", Null)>>))>>)
\* a field that is undefined
DocUndefined == Page("p5", <<P("title", Chars(<<"a">>)), P("image", Undef)>>)
\* rich text: a header followed by a normal block, and a keyed string
DocRich ==
  Page("p6", <<P("title", Chars(<<"a", "b">>)),
               P("body", Arr(<<Block("h1", <<Span(<<"a">>)>>),
                               Block("normal", <<Span(<<"b">>)>>)>>))>>)
\* rich text: a block with a marked span, sent as markup
DocMarked ==
  Page("p7", <<P("body", Arr(<<Block("normal",
                  <<MarkedSpan(<<"a">>, <<"strong">>), Span(<<"b">>)>>)>>))>>)
\* a whole-array field and a keyed string
DocKeywords ==
  Page("p8", <<P("title", Chars(<<"a">>)),
               P("keywords", Arr(<<Chars(<<"a">>), Chars(<<"b">>)>>))>>)
\* two references to one document
DocTwoRefs ==
  Page("p9", <<P("title", Chars(<<"a">>)),
               P("links", Arr(<<Reference("docA"), Reference("docA")>>))>>)
\* four references: a repeated id, and an id without a translated version
DocFourRefs ==
  Page("p10", <<P("title", Chars(<<"b">>)),
                P("links", Arr(<<Reference("docA"), Reference("docB"),
                                 Reference("docC"), Reference("docA")>>))>>)
\* rich text and a reference
DocRichRef ==
  Page("p11", <<P("link", Reference("docB")),
                P("content", Arr(<<Block("normal", <<Span(<<"b", "a">>)>>)>>))>>)
\* the reserved key _translations at the top and below it
DocTranslations ==
  Page("p12", <<P("title", Chars(<<"a">>)),
                P("_translations", Obj(<<P("title", Chars(<<"b">>))>>)),
                P("seo", Obj(<<P("_translations",
                    Obj(<<P("title", Chars(<<"b">>)),
                          P("body", Arr(<<Block("normal", <<Span(<<"b">>)>>)>>))>>))>>))>>)
\* the reserved key under an object that sits under a key of its own name
DocShadowed ==
  Page("p13", <<P("hero", Obj(<<P("hero", Obj(<<P("_translations",
                    Arr(<<Block("normal", <<Span(<<"a">>)>>)>>))>>))>>))>>)

\* a document without a language
DocNoLanguage ==
  Obj(<<P("_id", Id("p14")), P("_type", Id("page")), P("title", Chars(<<"a">>)),
        P("link", Reference("docA"))>>)

\* one more section than a batch holds, each with the same title
DocManyTitles ==
  Page("p15", [i \in 1..(BATCH_SIZE + 1) |->
                 P("s" \o ToString(i), Obj(<<P("title", Chars(<<"a">>))>>))])

\* two whole-array fields of the same name at different paths
DocTwoKeywords ==
  Page("p16", <<P("keywords", Arr(<<Chars(<<"a">>)>>)),
                P("seo", Obj(<<P("keywords", Arr(<<Chars(<<"b">>)>>))>>))>>)

\* rich text: two headers in a row, then a normal block
DocTwoHeaders ==
  Page("p17", <<P("body", Arr(<<Block("h1", <<Span(<<"a">>)>>),
                                Block("h2", <<Span(<<"b">>)>>),
                                Block("normal", <<Span(<<"a">>)>>)>>))>>)

\* rich text: a simple block whose span holds only a space
DocBlankSpan ==
  Page("p18", <<P("body", Arr(<<Block("normal", <<Span(<<" ">>)>>)>>))>>)

\* an upper-case keyed string, and an upper-case header with a normal block
\* after it
DocUpperCase ==
  Page("p19", <<P("title", Chars(<<"A">>)),
                P("body", Arr(<<Block("h1", <<Span(<<"B">>)>>),
                                Block("normal", <<Span(<<"a">>)>>)>>))>>)

\* a keyed string with two leading spaces and a trailing tab
DocWhitespace == Page("p20", <<P("title", Chars(<<" ", " ", "a", "\t">>))>>)

\* a document that carries no _type
DocUntyped ==
  Obj(<<P("_id", Id("p21")), P("language", Id("en")), P("title", Chars(<<"a">>))>>)

\* rich text: a custom block that holds rich text of its own, a block of
\* two spans, one of them marked
DocCustomBlock ==
  Page("p22", <<P("body", Arr(<<Block("normal", <<Span(<<"a">>)>>),
      Obj(<<P("_type", Id("featureText")),
            P("content", Arr(<<Block("normal",
                <<MarkedSpan(<<"a">>, <<"strong">>), Span(<<"b">>)>>)>>))>>)>>))>>)

\* rich text with a custom block, under three objects nested under keys of
\* one name
DocDeepShadow ==
  Page("p23", <<P("hero", Obj(<<P("hero", Obj(<<P("hero",
      Arr(<<Block("normal", <<Span(<<"a">>)>>),
            Obj(<<P("_type", Id("featureText")),
                  P("title", Chars(<<"b">>))>>)>>))>>))>>))>>)

\* rich text: a custom block whose rich text has a span of one space
\* before a span of text
DocCustomBlank ==
  Page("p24", <<P("body", Arr(<<Block("normal", <<Span(<<"a">>)>>),
      Obj(<<P("_type", Id("featureText")),
            P("content", Arr(<<Block("normal",
                <<Span(<<" ">>), Span(<<"b">>)>>)>>))>>)>>))>>)

Docs == {DocTitle, DocTyped, DocNull, DocNullNested, DocUndefined, DocRich,
         DocMarked, DocKeywords, DocTwoRefs, DocFourRefs, DocTranslations,
         DocShadowed, DocNoLanguage, DocManyTitles, DocTwoKeywords,
         DocTwoHeaders, DocBlankSpan, DocUpperCase, DocWhitespace,
         DocUntyped, DocCustomBlock, DocDeepShadow, DocCustomBlank}
RichDocs == {DocRich, DocMarked, DocRichRef}
RefDocs == {DocTwoRefs, DocFourRefs, DocRichRef}

----------------------------------------------------------------------------
(* The state machine.                                                      *)
(*  queue            the documents whose translation was requested and has *)
(*                   not begun, in arrival order                           *)
(*  runs             one record per request handler of the process: the    *)
(*                   position and the locals of its translateDocument call *)
(*  blockContentMap  the module-level map, shared by all runs              *)
(*  uid              the number of the next uuid()                         *)

VARIABLES queue, runs, blockContentMap, uid, deeplApiKey, fieldKeyConfig,
          translatableFieldKeys, sync

vars == <<queue, runs, blockContentMap, uid, deeplApiKey, fieldKeyConfig,
          translatableFieldKeys, sync>>

\* the documents requested in one behaviour
MaxRuns == 2

\* pc: idle | resolving | resolved | translating | rewritten | done | failed
\* orig is the document as loaded, doc the tree the run mutates, before the
\* tree as it was when replaceTranslations began; lookups holds, per
\* reference object, the id read and the state of its promise; awaited is
\* the number of chunks processPromisesInChunks has awaited; records are the
\* entries the run's collector put in blockContentMap; clobbered tells that
\* another run cleared the map after this run collected.
IdleRun ==
  [pc |-> "idle", orig |-> Null, doc |-> Null, before |-> Null,
   lookups |-> <<>>, awaited |-> 0,
   fields |-> <<>>, arrays |-> <<>>, records |-> <<>>,
   calls |-> <<>>, sent |-> 0, translationMap |-> <<>>,
   batchedArrayFieldTranslations |-> <<>>,
   failure |-> "", clobbered |-> FALSE,
   chunkSize |-> CHUNK_SIZE, results |-> <<>>]

Slots == DOMAIN runs

\* the frame of a syncDocuments call: originalDocument, the versions the
\* loop walks, the number of versions the loop is done with, and the
\* patches committed so far (id patched, fields set)
NoSync ==
  [originalDocument |-> Null, otherDocumentVersions |-> <<>>, index |-> 0,
   patches |-> <<>>]

Seqs(S, n) == [1..n -> S]

\* the deeplApiKey of the service's configuration: set, or left empty
ApiKeys == {Id("key"), Chars(<<>>)}

\* loadDocumentData resolves with the document, or with null when the store
\* has none
Init ==
  /\ queue \in Seqs(Docs \cup {Null}, MaxRuns)
  /\ runs = [r \in {1} |-> IdleRun]
  /\ blockContentMap = <<>>
  /\ uid = 1
  /\ deeplApiKey \in ApiKeys
  /\ fieldKeyConfig = NoFieldKeyConfig
  /\ translatableFieldKeys = getMergedTranslatableFieldKeys(NoFieldKeyConfig)
  /\ sync = NoSync

\* two handlers at work in one process
InitConcurrent ==
  /\ queue \in Seqs(RichDocs, MaxRuns)
  /\ runs = [r \in {1, 2} |-> IdleRun]
  /\ blockContentMap = <<>>
  /\ uid = 1
  /\ deeplApiKey = Id("key")
  /\ fieldKeyConfig = NoFieldKeyConfig
  /\ translatableFieldKeys = getMergedTranslatableFieldKeys(NoFieldKeyConfig)
  /\ sync = NoSync

InitReferences ==
  /\ queue \in Seqs(RefDocs, MaxRuns)
  /\ runs = [r \in {1} |-> IdleRun]
  /\ blockContentMap = <<>>
  /\ uid = 1
  /\ deeplApiKey = Id("key")
  /\ fieldKeyConfig = NoFieldKeyConfig
  /\ translatableFieldKeys = getMergedTranslatableFieldKeys(NoFieldKeyConfig)
  /\ sync = NoSync

\* translateDocument up to the await of processReferenceObjects: every
\* async callback of referenceObjects.map runs to its first await, so every
\* fetch is issued here
\* the promises of referenceObjects.map(async ...), each at its await
Lookups(document, referenceObjects) ==
  [i \in 1..Len(referenceObjects) |->
     [path |-> referenceObjects[i],
      id |-> Get(GetPath(document, referenceObjects[i]), "_ref"),
      st |-> "inflight"]]

Begin(r) ==
  /\ queue # <<>>
  /\ runs[r].pc \in {"idle", "done", "failed"}
  /\ runs' = [runs EXCEPT ![r] =
       IF ~Truthy(Head(queue))
       THEN [IdleRun EXCEPT !.pc = "failed", !.failure = "document"]
       ELSE IF ~Truthy(Get(Head(queue), "language"))
       THEN [IdleRun EXCEPT !.pc = "failed", !.failure = "language",
                            !.orig = Head(queue)]
       ELSE [IdleRun EXCEPT
               !.pc = "resolving", !.orig = Head(queue), !.doc = Head(queue),
               !.lookups = Lookups(Head(queue),
                                   findAllReferenceObjects(Head(queue), <<>>))]]
  /\ queue' = Tail(queue)
  /\ UNCHANGED <<blockContentMap, uid, deeplApiKey, fieldKeyConfig, translatableFieldKeys, sync>>

\* the callback of lookup i after its fetch answered with newId
Answered(run, i, newId) ==
  IF newId = Undef THEN [run EXCEPT !.lookups[i].st = "none"]
  ELSE [run EXCEPT !.lookups[i].st = "found",
                   !.doc = replaceRefId(@, run.lookups[i].id, newId)]

\* the fetch of one lookup settles: it answers, and the callback replaces
\* the id throughout the document when a version was found, or it raises,
\* and the callback's catch logs it
LookupComplete(r, i) ==
  /\ runs[r].pc = "resolving"
  /\ i \in 1..Len(runs[r].lookups)
  /\ runs[r].lookups[i].st = "inflight"
  /\ \E answers \in BOOLEAN :
       runs' = [runs EXCEPT ![r] =
         IF ~answers THEN [@ EXCEPT !.lookups[i].st = "raised"]
         ELSE Answered(@, i, loadDocumentTranslationsAndReplace(@.lookups[i].id))]
  /\ UNCHANGED <<queue, blockContentMap, uid, deeplApiKey, fieldKeyConfig,
               translatableFieldKeys, sync>>

\* processPromisesInChunks: await Promise.allSettled(chunk) returns
AwaitChunk(r) ==
  /\ runs[r].pc = "resolving"
  /\ runs[r].awaited < NumChunks(Len(runs[r].lookups))
  /\ \A i \in ChunkIndices(runs[r].awaited + 1, Len(runs[r].lookups)) :
        runs[r].lookups[i].st # "inflight"
  /\ runs' = [runs EXCEPT ![r].awaited = @ + 1]
  /\ UNCHANGED <<queue, blockContentMap, uid, deeplApiKey, fieldKeyConfig,
               translatableFieldKeys, sync>>

\* processReferenceObjects returns documentData
ResolveDone(r) ==
  /\ runs[r].pc = "resolving"
  /\ runs[r].awaited = NumChunks(Len(runs[r].lookups))
  /\ runs' = [runs EXCEPT ![r].pc = "resolved"]
  /\ UNCHANGED <<queue, blockContentMap, uid, deeplApiKey, fieldKeyConfig,
               translatableFieldKeys, sync>>

\* translateJSONData up to its first await: clearBlockContentMap() and
\* mapFieldsToTranslate run without a break.  A TypeError of the collector
\* rejects the run.
\* the state after the collector returned st, or raised
Collected(r, st) ==
  /\ blockContentMap' = st.bcm
  /\ uid' = st.uid
  /\ runs' = [q \in Slots |->
       IF q = r
       THEN IF st.raised
            THEN [IdleRun EXCEPT !.pc = "failed", !.failure = "collector",
                                 !.orig = runs[r].orig]
            ELSE [runs[r] EXCEPT
                    !.pc = "translating", !.lookups = <<>>, !.awaited = 0,
                    !.fields = st.fields, !.arrays = st.arrays,
                    !.records = st.bcm,
                    !.calls = ProviderCalls(st.fields, st.arrays)]
       ELSE IF runs[q].pc = "translating"
            THEN [runs[q] EXCEPT !.clobbered = TRUE]
            ELSE runs[q]]

\* the state after translateJSONData cleared the map and threw
\* 'No API key found'; the lookups the run made stay on its record
NoApiKey(r) ==
  /\ blockContentMap' = clearBlockContentMap(blockContentMap)
  /\ uid' = uid
  /\ runs' = [q \in Slots |->
       IF q = r
       THEN [runs[r] EXCEPT !.pc = "failed", !.failure = "credential"]
       ELSE IF runs[q].pc = "translating"
            THEN [runs[q] EXCEPT !.clobbered = TRUE]
            ELSE runs[q]]

StartTranslate(r) ==
  /\ runs[r].pc = "resolved"
  /\ IF ~Truthy(deeplApiKey)
     THEN NoApiKey(r)
     ELSE Collected(r, mapFieldsToTranslate(runs[r].doc, Get(runs[r].doc, "_type"), <<>>,
                    CollectorState(clearBlockContentMap(blockContentMap), uid),
                    translatableFieldKeys,
                    DEFAULT_TRANSLATABLE_ARRAY_FIELD_KEYS))
  /\ UNCHANGED <<queue, deeplApiKey, fieldKeyConfig, translatableFieldKeys, sync>>

\* translations.map((translation) => translation.text)
TextArray(results) == Arr([i \in 1..Len(results) |-> Str(results[i])])

\* the run after a call that returned results
Returned(run, call, results) ==
  IF call.kind = "array"
  THEN [run EXCEPT !.calls = Tail(@), !.sent = @ + 1,
          !.batchedArrayFieldTranslations =
             Append(@, [key |-> call.key, value |-> TextArray(results)])]
  ELSE [run EXCEPT !.calls = Tail(@), !.sent = @ + 1,
          !.translationMap = SetAll(@, call, results, 1)]

AfterCall(run, call, outcome) ==
  IF CallRaises(call, outcome)
  THEN [IdleRun EXCEPT !.pc = "failed", !.failure = "provider",
                       !.orig = run.orig, !.sent = run.sent + 1,
                       !.calls = Tail(run.calls)]
  ELSE Returned(run, call, ProviderResult(call.texts, outcome))

\* one await translator.translateText(...) of the run returns or raises;
\* nothing catches a raise, so it rejects the run
ProviderCall(r) ==
  /\ runs[r].pc = "translating"
  /\ runs[r].calls # <<>>
  /\ \E outcome \in ProviderOutcomes :
       runs' = [runs EXCEPT ![r] = AfterCall(@, Head(@.calls), outcome)]
  /\ UNCHANGED <<queue, blockContentMap, uid, deeplApiKey, fieldKeyConfig,
               translatableFieldKeys, sync>>

\* the arguments translateJSONData hands to replaceTranslations
RewriteContext(run, bcm) ==
  [batchedArrayFieldTranslations |-> run.batchedArrayFieldTranslations,
   batchedTranslations |-> BatchedTranslations(run.fields, run.translationMap),
   fieldsToTranslate |-> run.fields,
   translationMap |-> run.translationMap,
   translatableArrayFieldKeys |-> DEFAULT_TRANSLATABLE_ARRAY_FIELD_KEYS,
   bcm |-> bcm]

\* the rest of translateJSONData after the last await: batchedTranslations
\* and replaceTranslations on the document itself
Rewrite(r) ==
  /\ runs[r].pc = "translating"
  /\ runs[r].calls = <<>>
  /\ runs' = [runs EXCEPT ![r] =
       [@ EXCEPT !.pc = "rewritten", !.before = runs[r].doc,
                 !.doc = replaceTranslations(@, RewriteContext(runs[r], blockContentMap), <<>>)]]
  /\ UNCHANGED <<queue, blockContentMap, uid, deeplApiKey, fieldKeyConfig,
               translatableFieldKeys, sync>>

\* client.patch(...).set(...).commit() and the return of translateDocument
Patch(r) ==
  /\ runs[r].pc = "rewritten"
  /\ runs' = [runs EXCEPT ![r] = [IdleRun EXCEPT !.pc = "done"]]
  /\ UNCHANGED <<queue, blockContentMap, uid, deeplApiKey, fieldKeyConfig,
               translatableFieldKeys, sync>>

Next ==
  \/ \E r \in Slots : Begin(r)
  \/ \E r \in Slots : \E i \in 1..Len(runs[r].lookups) : LookupComplete(r, i)
  \/ \E r \in Slots : AwaitChunk(r)
  \/ \E r \in Slots : ResolveDone(r)
  \/ \E r \in Slots : StartTranslate(r)
  \/ \E r \in Slots : ProviderCall(r)
  \/ \E r \in Slots : Rewrite(r)
  \/ \E r \in Slots : Patch(r)

\* translation requests handled one after another
Spec == Init /\ [][Next]_vars

\* two request handlers of one process, their awaits interleaving
SpecConcurrent == InitConcurrent /\ [][Next]_vars

\* the steps of reference resolution: a fetch settles, an await returns
Resolve ==
  \/ \E r \in Slots : \E i \in 1..Len(runs[r].lookups) : LookupComplete(r, i)
  \/ \E r \in Slots : AwaitChunk(r)
  \/ \E r \in Slots : ResolveDone(r)
\* every fetch settles and every settled await resumes
SpecReferences == InitReferences /\ [][Next]_vars /\ WF_vars(Resolve)

----------------------------------------------------------------------------
(* Properties *)

\* the keys of the block-location records a run's collector created
RecordKeys(run) == {run.records[k].key : k \in 1..Len(run.records)}
\* the collected fields of a run that are keyed by their path
PathFields(run) ==
  {i \in 1..Len(run.fields) : run.fields[i].key \notin RecordKeys(run)}
\* the _ref of the reference object at a path
RefAt(doc, path) == Get(GetPath(doc, path), "_ref")
\* the paths of the string values of a tree
RECURSIVE StringPaths(_, _)
StringPaths(node, path) ==
  IF node.t = "str" THEN {path}
  ELSE UNION {StringPaths(Entries(node)[i].v, Append(path, Entries(node)[i].k)) :
                i \in 1..Len(Entries(node))}
\* p begins with q
HasPrefix(p, q) == Len(q) <= Len(p) /\ SubSeq(p, 1, Len(q)) = q
\* some value of the tree is null or undefined
RECURSIVE HasNullish(_)
HasNullish(node) ==
  \/ node.t \in {"null", "undef"}
  \/ \E i \in 1..Len(Entries(node)) : HasNullish(Entries(node)[i].v)

\* C1: after the rewriter ran, every collected path that has no entry in
\* the translation map holds the value it held before.
C1_AbsentPathKeepsOriginal ==
  \A r \in Slots : runs[r].pc = "rewritten" =>
    \A i \in PathFields(runs[r]) :
      ~Has(runs[r].translationMap, runs[r].fields[i].key) =>
        GetPath(runs[r].doc, runs[r].fields[i].key)
          = GetPath(runs[r].before, runs[r].fields[i].key)

\* C2: a run that makes several provider calls is never rejected because
\* the provider raised on one of them.
C2_ProviderRaiseDoesNotReject ==
  \A r \in Slots :
    ~(/\ runs[r].pc = "failed" /\ runs[r].failure = "provider"
      /\ runs[r].sent + Len(runs[r].calls) >= 2)

\* C3: collecting and then rewriting with an empty translation map and no
\* array-field translations leaves the tree as it was.
C3_EmptyMapIsIdentity ==
  \A r \in Slots :
    (/\ runs[r].pc = "rewritten" /\ runs[r].translationMap = <<>>
     /\ runs[r].batchedArrayFieldTranslations = <<>>)
    => runs[r].doc = runs[r].before

InFlight(run) == {i \in 1..Len(run.lookups) : run.lookups[i].st = "inflight"}

\* C5: at no instant are more than 3 lookups of one document in flight.
C5_AtMostThreeInFlight ==
  \A r \in Slots : Cardinality(InFlight(runs[r])) <= CHUNK_SIZE

\* the rich-text arrays of a run's records hold what they held before the
\* rewriter ran
RichTextUnchanged(run) ==
  \A k \in 1..Len(run.records) :
    GetPath(run.doc, run.records[k].arrayPath)
      = GetPath(run.before, run.records[k].arrayPath)
\* the provider translated some rich-text field of the run
HasRichTextTranslation(run) ==
  \E k \in 1..Len(run.records) : Has(run.translationMap, run.records[k].key)

\* C6: when the clear at the start of a later run happened between the
\* collecting and the rewriting of an earlier run, the earlier run's
\* rich-text translations are not written back.
C6_ClearedRecordsLoseRichText ==
  \A r \in Slots :
    (runs[r].pc = "rewritten" /\ runs[r].clobbered) => RichTextUnchanged(runs[r])

\* an interleaving of two runs in which the earlier one had rich-text
\* translations and rewrote after the later one cleared the map
C6_Witness ==
  \E r \in Slots :
    /\ runs[r].pc = "rewritten" /\ runs[r].clobbered
    /\ HasRichTextTranslation(runs[r])
    /\ RichTextUnchanged(runs[r])

\* the keys of the fields a run collected
FieldKeys(run) == {run.fields[i].key : i \in 1..Len(run.fields)}

\* C7: in runs executed one after another, every record of the
\* block-location map, from collecting to the end of rewriting, was created
\* for a field the current run collected; no record of an earlier run is
\* left in it.
C7_MapHoldsOwnRecordsOnly ==
  \A r \in Slots :
    runs[r].pc \in {"translating", "rewritten"} =>
      \A k \in 1..Len(blockContentMap) :
        blockContentMap[k].key \in FieldKeys(runs[r])

\* a second run that rewrote rich text after a first run had left records
C7_Witness ==
  \E r \in Slots :
    /\ runs[r].pc = "rewritten"
    /\ blockContentMap # <<>>
    /\ blockContentMap[1].key # uuid(1)
    /\ ~RichTextUnchanged(runs[r])

\* some lookup of the run for the same id found a version
FoundFor(run, id) ==
  \E j \in 1..Len(run.lookups) :
    run.lookups[j].id = id /\ run.lookups[j].st = "found"
\* the id the version of id in the target language has
Counterpart(id) == Str(TranslatedVersion[id.s])

\* C8 as stated: after resolution, a reference whose lookup raised or found
\* nothing keeps its id, and a reference whose lookup found a version points
\* at it.
C8_FailedLookupKeepsId ==
  \A r \in Slots : runs[r].pc = "resolved" =>
    \A i \in 1..Len(runs[r].lookups) :
      RefAt(runs[r].doc, runs[r].lookups[i].path) =
        IF runs[r].lookups[i].st = "found"
        THEN Counterpart(runs[r].lookups[i].id)
        ELSE runs[r].lookups[i].id

\* after resolution, a reference keeps its id unless a lookup for the same
\* id found a version, and then it points at that version
ResolvedById ==
  \A r \in Slots : runs[r].pc = "resolved" =>
    \A i \in 1..Len(runs[r].lookups) :
      RefAt(runs[r].doc, runs[r].lookups[i].path) =
        IF FoundFor(runs[r], runs[r].lookups[i].id)
        THEN Counterpart(runs[r].lookups[i].id)
        ELSE runs[r].lookups[i].id

\* C8 amended: a reference whose lookup raised or found nothing keeps its
\* id unless the lookup of another reference with the same id found a
\* version; every reference with a found id is repointed; and resolution
\* always completes.
C8_FailedLookupKeepsIdUnlessFoundElsewhere ==
  /\ []ResolvedById
  /\ (runs[1].pc = "resolving") ~> (runs[1].pc = "resolved")

\* a resolution in which one lookup raised, one found nothing and another,
\* for a different id, found a version
C8_Witness ==
  /\ runs[1].pc = "resolved"
  /\ \E i, j, k \in 1..Len(runs[1].lookups) :
       /\ runs[1].lookups[i].st = "raised"
       /\ ~FoundFor(runs[1], runs[1].lookups[i].id)
       /\ runs[1].lookups[k].st = "none"
       /\ runs[1].lookups[j].st = "found"
       /\ RefAt(runs[1].doc, runs[1].lookups[i].path) = runs[1].lookups[i].id
       /\ RefAt(runs[1].doc, runs[1].lookups[j].path)
            = Counterpart(runs[1].lookups[j].id)

\* two lookups of the run are for the same id
SameId(run, i, j) == i # j /\ run.lookups[i].id = run.lookups[j].id
TwoLookupsOfOneId(run) ==
  \E i, j \in 1..Len(run.lookups) : SameId(run, i, j)
\* both references of every pair of answered lookups for one id point at
\* the version of that id
PairsRepointed(run) ==
  \A i, j \in 1..Len(run.lookups) :
    (/\ SameId(run, i, j)
     /\ run.lookups[i].st = "found" /\ run.lookups[j].st = "found")
    => /\ RefAt(run.doc, run.lookups[i].path) = Counterpart(run.lookups[i].id)
       /\ RefAt(run.doc, run.lookups[j].path) = Counterpart(run.lookups[i].id)

\* C9: when two references to the same id are being resolved, then in
\* whatever order the lookups settle, however late, resolution ends and both
\* references point at the version of that id.
C9_SameIdBothRepointed ==
  (runs[1].pc = "resolving" /\ TwoLookupsOfOneId(runs[1]))
    ~> (runs[1].pc = "resolved" /\ PairsRepointed(runs[1]))

\* a finished resolution of four references, the first and the last for
\* the same id and awaited in different chunks, both repointed
C9_Witness ==
  /\ runs[1].pc = "resolved"
  /\ Len(runs[1].lookups) > CHUNK_SIZE
  /\ \E i \in 1..CHUNK_SIZE, j \in (CHUNK_SIZE + 1)..Len(runs[1].lookups) :
       /\ SameId(runs[1], i, j)
       /\ runs[1].lookups[i].st = "found" /\ runs[1].lookups[j].st = "found"
       /\ RefAt(runs[1].doc, runs[1].lookups[i].path)
            = Counterpart(runs[1].lookups[i].id)
       /\ RefAt(runs[1].doc, runs[1].lookups[j].path)
            = Counterpart(runs[1].lookups[i].id)

\* C10: a run on a document with a null or undefined field somewhere is
\* not rejected by the collector.
C10_NullishFieldsDoNotRaise ==
  \A r \in Slots :
    (runs[r].pc = "failed" /\ runs[r].failure = "collector")
    => ~HasNullish(runs[r].orig)

\* a path that passes through the reserved key
BeneathTranslations(path) == "_translations" \in Range(path)

\* C11: the collector emits nothing located beneath a _translations key,
\* at any depth, and the rewriter changes nothing beneath one.
C11_TranslationsKeySkipped ==
  \A r \in Slots : runs[r].pc \in {"translating", "rewritten"} =>
    /\ \A i \in PathFields(runs[r]) : ~BeneathTranslations(runs[r].fields[i].key)
    /\ \A k \in 1..Len(runs[r].records) :
         ~BeneathTranslations(runs[r].records[k].arrayPath)
    /\ runs[r].pc = "rewritten" =>
         \A p \in StringPaths(runs[r].before, <<>>) :
           BeneathTranslations(p) =>
             GetPath(runs[r].doc, p) = GetPath(runs[r].before, p)

\* C12: a run that fails because the credential, the document or the
\* language is missing has issued no reference lookup and no provider call.
C12_ConfigurationErrorBeforeAnyWork ==
  \A r \in Slots :
    (runs[r].pc = "failed"
       /\ runs[r].failure \in {"credential", "document", "language"})
    => runs[r].lookups = <<>> /\ runs[r].sent = 0

\* C13: the document object handed to a run holds, once the run has
\* resolved its references and rewritten, what it held when it was handed
\* over (doc is that object, orig its content at entry).
C13_ArgumentNotMutated ==
  \A r \in Slots :
    runs[r].pc \in {"resolved", "rewritten"} => runs[r].doc = runs[r].orig

\* two collected paths that end in the same key name and hold the same
\* source string
SameKeyAndValue(run, i, j) ==
  /\ i # j
  /\ run.fields[i].key[Len(run.fields[i].key)] = run.fields[j].key[Len(run.fields[j].key)]
  /\ run.fields[i].value = run.fields[j].value

RECURSIVE ArrayFieldPaths(_, _)
ArrayFieldPaths(node, path) ==
  IF IsArr(node) /\ path # <<>>
       /\ path[Len(path)] \in DEFAULT_TRANSLATABLE_ARRAY_FIELD_KEYS
  THEN {path}
  ELSE UNION {ArrayFieldPaths(Entries(node)[i].v, Append(path, Entries(node)[i].k)) :
                i \in 1..Len(Entries(node))}
\* the translations of the non-blank string elements of an array, in order
OwnTranslations(array) ==
  TextArray([i \in 1..Len(TextsOf(SelectSeq(array.e, LAMBDA v : IsStr(v) /\ ~IsBlank(v.s))))
               |-> ProviderTranslate(TextsOf(SelectSeq(array.e, LAMBDA v : IsStr(v) /\ ~IsBlank(v.s)))[i])])
\* every array call of the run returned translations
ArrayCallsAnswered(run) ==
  /\ run.batchedArrayFieldTranslations # <<>>
  /\ \A i \in 1..Len(run.batchedArrayFieldTranslations) :
       run.batchedArrayFieldTranslations[i].value.e # <<>>

\* C15: when the provider answered the array calls, every whole-array
\* translatable field holds, after rewriting, the translations of exactly
\* its own non-blank elements in their original order.
C15_EachArrayFieldGetsItsOwnElements ==
  \A r \in Slots : (runs[r].pc = "rewritten" /\ ArrayCallsAnswered(runs[r])) =>
    \A p \in ArrayFieldPaths(runs[r].before, <<>>) :
      GetPath(runs[r].doc, p) = OwnTranslations(GetPath(runs[r].before, p))

\* the blocks after blockIndex that are of header or of normal style
StyledBlocksAfter(nestedArray, blockIndex) ==
  {i \in (blockIndex + 1)..Len(nestedArray.e) :
     IsBlockType(nestedArray.e[i])
       /\ (BlockInfoOf(nestedArray.e[i]).isNormal \/ BlockInfoOf(nestedArray.e[i]).isHeader)}
\* the joined text of the first of them when it is normal, nothing when it
\* is a header or when there is none
ContextUpToNextHeader(nestedArray, later) ==
  IF later = {} THEN Undef
  ELSE IF BlockInfoOf(nestedArray.e[CHOOSE i \in later : \A j \in later : i <= j]).isHeader
  THEN Undef
  ELSE Str(BlockInfoOf(nestedArray.e[CHOOSE i \in later : \A j \in later : i <= j]).text)

\* C16: the context recorded for a header block is the joined text of the
\* first later normal block when no other header lies between the two, and
\* nothing when another header is met first.
C16_HeaderContextStopsAtNextHeader ==
  \A r \in Slots : runs[r].pc = "translating" =>
    \A k \in 1..Len(runs[r].records) :
      runs[r].records[k].isHeader =>
        runs[r].records[k].context
          = ContextUpToNextHeader(
              GetPath(runs[r].doc, runs[r].records[k].arrayPath),
              StyledBlocksAfter(GetPath(runs[r].doc, runs[r].records[k].arrayPath),
                                runs[r].records[k].blockIndex))

----------------------------------------------------------------------------
(* The markup codec on its own: a block is encoded by convertBlockToHtml   *)
(* and the markup, untouched, is decoded by parseHtmlToBlockStructure.     *)
(* The run's orig is the block, doc the markup and then the decoded block. *)

MaxSpans == 2
MaxMarks == 2
CodecMarks == {"strong", "em", "primary"}
CodecTexts == {<<"a">>, <<" ">>}
\* the lists of distinct marks a span may carry
CodecMarkLists ==
  UNION {{m \in [1..n -> CodecMarks] : \A i, j \in 1..n : i # j => m[i] # m[j]} :
           n \in 0..MaxMarks}
CodecSpans == {MarkedSpan(t, m) : t \in CodecTexts, m \in CodecMarkLists}
CodecBlocks ==
  UNION {{Block("normal", c) : c \in [1..n -> CodecSpans]} : n \in 1..MaxSpans}

InitCodec ==
  /\ queue \in {<<b>> : b \in CodecBlocks}
  /\ runs = [r \in {1} |-> IdleRun]
  /\ blockContentMap = <<>>
  /\ uid = 1
  /\ deeplApiKey = Id("key")
  /\ fieldKeyConfig = NoFieldKeyConfig
  /\ translatableFieldKeys = getMergedTranslatableFieldKeys(NoFieldKeyConfig)
  /\ sync = NoSync

\* const html = convertBlockToHtml(block)
EncodeBlock(r) ==
  /\ runs[r].pc = "idle"
  /\ queue # <<>>
  /\ runs' = [runs EXCEPT ![r] =
       [IdleRun EXCEPT !.pc = "encoded", !.orig = Head(queue),
                       !.doc = Str(convertBlockToHtml(Head(queue)))]]
  /\ queue' = Tail(queue)
  /\ UNCHANGED <<blockContentMap, uid, deeplApiKey, fieldKeyConfig, translatableFieldKeys, sync>>

\* parseHtmlToBlockStructure(html, block)
DecodeBlock(r) ==
  /\ runs[r].pc = "encoded"
  /\ runs' = [runs EXCEPT ![r] =
       [@ EXCEPT !.pc = "decoded", !.before = runs[r].doc,
                 !.doc = parseHtmlToBlockStructure(runs[r].doc.s, runs[r].orig)]]
  /\ UNCHANGED <<queue, blockContentMap, uid, deeplApiKey, fieldKeyConfig,
               translatableFieldKeys, sync>>

NextCodec ==
  \/ \E r \in Slots : EncodeBlock(r)
  \/ \E r \in Slots : DecodeBlock(r)

SpecCodec == InitCodec /\ [][NextCodec]_vars

\* the concatenated text of the spans of a block
BlockText(block) ==
  Concat([i \in 1..Len(Get(block, "children").e) |->
            Get(Get(block, "children").e[i], "text").s])
\* per character of that text, the set of marks of its span
BlockCharMarks(block) ==
  Concat([i \in 1..Len(Get(block, "children").e) |->
            [c \in 1..Len(Get(Get(block, "children").e[i], "text").s) |->
               Range(SpanMarks(Get(block, "children").e[i]))]])

\* C17: decoding the markup of a block gives a block with the same
\* concatenated span text and, character by character, the same marks.
C17_CodecRoundTrip ==
  \A r \in Slots : runs[r].pc = "decoded" =>
    /\ BlockText(runs[r].doc) = BlockText(runs[r].orig)
    /\ BlockCharMarks(runs[r].doc) = BlockCharMarks(runs[r].orig)

\* C18: every item the collector emitted has a value that is non-empty
\* after trimming.
C18_CollectedValuesNonBlank ==
  \A r \in Slots : runs[r].pc = "translating" =>
    \A i \in 1..Len(runs[r].fields) : ~IsBlank(runs[r].fields[i].value)

\* a text that has upper-case letters and no lower-case ones
IsUpperCase(text) == text = ToUpperCase(text) /\ text # ToLowerCase(text)

\* C19: every plain item whose source is entirely upper-case, with or
\* without context, has an entirely upper-case value in the translation
\* map.
C19_UpperCaseSourceGivesUpperCaseValue ==
  \A r \in Slots : runs[r].pc \in {"translating", "rewritten"} =>
    \A i \in 1..Len(runs[r].fields) :
      (/\ ~runs[r].fields[i].isHtml
       /\ IsUpperCase(runs[r].fields[i].value)
       /\ Has(runs[r].translationMap, runs[r].fields[i].key))
      => IsUpperCase(runs[r].translationMap[runs[r].fields[i].key])

\* the whitespace a text begins with, and the whitespace it ends with
LeadingWhitespace(text) == SubSeq(text, 1, Len(text) - Len(TrimStart(text)))
TrailingWhitespace(text) == SubSeq(text, Len(TrimEnd(text)) + 1, Len(text))

\* C20: every collected keyed string that has an entry in the translation
\* map holds, after rewriting, a value that begins and ends with exactly
\* the whitespace its source began and ended with.
C20_SurroundingWhitespaceKept ==
  \A r \in Slots : runs[r].pc = "rewritten" =>
    \A i \in PathFields(runs[r]) :
      Has(runs[r].translationMap, runs[r].fields[i].key) =>
        /\ LeadingWhitespace(GetPath(runs[r].doc, runs[r].fields[i].key).s)
             = LeadingWhitespace(runs[r].fields[i].value)
        /\ TrailingWhitespace(GetPath(runs[r].doc, runs[r].fields[i].key).s)
             = TrailingWhitespace(runs[r].fields[i].value)

\* the names of the bare keys of the key list
BareKeyNames ==
  {DEFAULT_TRANSLATABLE_FIELD_KEYS[d].key :
     d \in {e \in 1..Len(DEFAULT_TRANSLATABLE_FIELD_KEYS) :
              DEFAULT_TRANSLATABLE_FIELD_KEYS[e].bare}}
\* a path that lies inside a rich-text array of the tree
InRichText(doc, path) ==
  \E n \in 1..(Len(path) - 1) : isBlockContent(GetPath(doc, SubSeq(path, 1, n)))
\* the paths of the non-blank strings of a tree that sit at a bare key,
\* outside _translations and outside rich text
BareKeyPaths(doc) ==
  {p \in StringPaths(doc, <<>>) :
     /\ p # <<>> /\ p[Len(p)] \in BareKeyNames
     /\ ~IsBlank(GetPath(doc, p).s)
     /\ ~BeneathTranslations(p)
     /\ ~InRichText(doc, p)}

SpanRecordsOf(run, arrayPath, blockIndex) ==
  SelectSeq(run.records, LAMBDA rec :
    rec.arrayPath = arrayPath /\ rec.blockIndex = blockIndex /\ ~rec.isHtml)
AllTranslated(run, recs) ==
  recs # <<>> /\ \A k \in 1..Len(recs) : Has(run.translationMap, recs[k].key)
\* the translated text of the block: the translations of its items, joined
WholeTranslation(run, recs) ==
  Concat([k \in 1..Len(recs) |-> run.translationMap[recs[k].key]])
\* the children of a block before and after the rewriter follow the policy
\* for plain translations
SpanPolicyFollowed(before, after, translation) ==
  IF Len(before.e) = 1
  THEN /\ Get(after.e[1], "text") = Str(translation)
       /\ SpanMarks(after.e[1]) = SpanMarks(before.e[1])
  ELSE /\ Get(after.e[1], "text") = Str(translation)
       /\ SpanMarks(after.e[1]) = <<>>
       /\ \A j \in 2..Len(after.e) :
            Get(after.e[j], "text") = Str(<<>>) /\ SpanMarks(after.e[j]) = <<>>

\* C22: a block whose plain span items were all translated has, after
\* rewriting, the translation in its only span with the marks kept, or,
\* when it had several spans, the whole translation in the first span
\* without marks and every other span empty and without marks.
C22_PlainTranslationSpanPolicy ==
  \A r \in Slots : runs[r].pc = "rewritten" =>
    \A k \in 1..Len(runs[r].records) :
      (/\ IsArr(GetPath(runs[r].before, runs[r].records[k].arrayPath))
       /\ AllTranslated(runs[r], SpanRecordsOf(runs[r], runs[r].records[k].arrayPath,
                                               runs[r].records[k].blockIndex)))
      => SpanPolicyFollowed(
           Get(GetPath(runs[r].before, runs[r].records[k].arrayPath).e[
                 runs[r].records[k].blockIndex], "children"),
           Get(GetPath(runs[r].doc, runs[r].records[k].arrayPath).e[
                 runs[r].records[k].blockIndex], "children"),
           WholeTranslation(runs[r], SpanRecordsOf(runs[r], runs[r].records[k].arrayPath,
                                                    runs[r].records[k].blockIndex)))

\* the calls of a schedule that send a given item, as <<call, position>>
SendsOf(calls, field) ==
  {cj \in {<<c, j>> : c \in 1..Len(calls), j \in 1..BATCH_SIZE + 1} :
     cj[2] <= Len(calls[cj[1]].items) /\ calls[cj[1]].items[cj[2]] = field}
\* the call is made for one item only and carries the context of that item
OwnContextCall(call, field) ==
  /\ call.items = <<field>>
  /\ call.kind \in {"context", "contextHtml"}
  /\ call.context = field.context

\* C23: in the provider calls of a run every item with a context is sent
\* in a call of its own that carries its context, every item without
\* context is sent in exactly one call, and no call for items without
\* context carries more than 50 texts.
C23_CallsPerItem ==
  \A r \in Slots : (runs[r].pc = "translating" /\ runs[r].sent = 0) =>
    /\ \A i \in 1..Len(runs[r].fields) :
         /\ Cardinality(SendsOf(runs[r].calls, runs[r].fields[i])) = 1
         /\ HasContext(runs[r].fields[i]) =>
              \A cj \in SendsOf(runs[r].calls, runs[r].fields[i]) :
                OwnContextCall(runs[r].calls[cj[1]], runs[r].fields[i])
    /\ \A c \in 1..Len(runs[r].calls) :
         runs[r].calls[c].kind \in {"plain", "html"} =>
           Len(runs[r].calls[c].texts) <= BATCH_SIZE

\* C24: no two items emitted in one collection pass share a key.
C24_EmittedKeysDistinct ==
  \A r \in Slots : runs[r].pc = "translating" =>
    \A i, j \in 1..Len(runs[r].fields) :
      i # j => runs[r].fields[i].key # runs[r].fields[j].key

----------------------------------------------------------------------------
(* The key lists on their own: the constructor of TranslationService       *)
(* computes translatableFieldKeys from the fieldKeyConfig it is given.     *)

MaxCustomKeys == 2
\* the keys a caller may add: a new name, a bare and a typed entry for a
\* default name
CustomKeyChoices == {BK("newField"), BK("title"), TK({<<"hero">>}, "title")}
ExcludableNames == {"title", "name", "newField"}
FieldKeyConfigs ==
  [customTranslatableFieldKeys :
     UNION {[1..n -> CustomKeyChoices] : n \in 0..MaxCustomKeys},
   excludeDefaultFieldKeys : SUBSET ExcludableNames]

\* before the constructor ran the service has no key list
InitKeys ==
  /\ queue = <<>>
  /\ runs = [r \in {1} |-> IdleRun]
  /\ blockContentMap = <<>>
  /\ uid = 1
  /\ deeplApiKey = Id("key")
  /\ fieldKeyConfig \in FieldKeyConfigs
  /\ translatableFieldKeys = <<>>
  /\ sync = NoSync

\* this.translatableFieldKeys = getMergedTranslatableFieldKeys(config.fieldKeyConfig)
Construct ==
  /\ translatableFieldKeys = <<>>
  /\ translatableFieldKeys' = getMergedTranslatableFieldKeys(fieldKeyConfig)
  /\ UNCHANGED <<queue, runs, blockContentMap, uid, deeplApiKey, fieldKeyConfig,
               sync>>

NextKeys == Construct

SpecKeys == InitKeys /\ [][NextKeys]_vars

\* the default list without the entries whose name is excluded
DefaultsKept(config) ==
  SelectSeq(DEFAULT_TRANSLATABLE_FIELD_KEYS,
            LAMBDA key : key.key \notin config.excludeDefaultFieldKeys)

\* C25: the merged key list is the default list without the entries whose
\* name is in the exclusion list, followed by all custom keys in their
\* given order.
C25_MergedKeysAreDefaultsKeptThenCustom ==
  translatableFieldKeys # <<>> =>
    translatableFieldKeys
      = DefaultsKept(fieldKeyConfig) \o fieldKeyConfig.customTranslatableFieldKeys

----------------------------------------------------------------------------
(* The decoder on markup of its own: the provider's answer is any markup,  *)
(* here two inline tags, one inside the other, with or without text        *)
(* before, between and after them.  The run's orig is the markup, doc the  *)
(* spans parseHtmlToSpans returns.                                         *)

MarkupMarks == {"strong", "primary", "secondary", "k1"}
MarkupTexts == {<<>>, <<"a">>}
\* text, <outer>, text, <inner>, text, </inner>, text, </outer>, text
NestedMarkup(outer, inner, t) ==
  t[1] \o <<MarkOpenTag(outer, MarkDefKeyNames)>>
  \o t[2] \o <<MarkOpenTag(inner, MarkDefKeyNames)>>
  \o t[3] \o <<MarkCloseTag(inner, MarkDefKeyNames)>>
  \o t[4] \o <<MarkCloseTag(outer, MarkDefKeyNames)>> \o t[5]
Markups ==
  {NestedMarkup(outer, inner, t) :
     outer \in MarkupMarks, inner \in MarkupMarks, t \in [1..5 -> MarkupTexts]}

InitMarkup ==
  /\ queue \in {<<Str(h)>> : h \in Markups}
  /\ runs = [r \in {1} |-> IdleRun]
  /\ blockContentMap = <<>>
  /\ uid = 1
  /\ deeplApiKey = Id("key")
  /\ fieldKeyConfig = NoFieldKeyConfig
  /\ translatableFieldKeys = getMergedTranslatableFieldKeys(NoFieldKeyConfig)
  /\ sync = NoSync

\* parseHtmlToSpans(html)
DecodeMarkup(r) ==
  /\ runs[r].pc = "idle"
  /\ queue # <<>>
  /\ runs' = [runs EXCEPT ![r] =
       [IdleRun EXCEPT !.pc = "decoded", !.orig = Head(queue),
                       !.doc = Arr(parseHtmlToSpans(Head(queue).s))]]
  /\ queue' = Tail(queue)
  /\ UNCHANGED <<blockContentMap, uid, deeplApiKey, fieldKeyConfig, translatableFieldKeys, sync>>

NextMarkup == \E r \in Slots : DecodeMarkup(r)

SpecMarkup == InitMarkup /\ [][NextMarkup]_vars

\* currentMarks after the parser read the first n symbols of html
MarksAfter(html, n) == ParseFrom(SubSeq(html, 1, n), 1, ParserState).currentMarks
\* the number of tags open after the first n symbols
RECURSIVE OpenDepth(_, _)
OpenDepth(html, n) ==
  IF n = 0 THEN 0
  ELSE OpenDepth(html, n - 1)
       + (IF ~IsTag(html[n]) THEN 0 ELSE IF TagOf(html[n]).open THEN 1 ELSE -1)
\* the opening tag at i is closed by the closing tag at j
Matches(html, i, j) ==
  /\ i < j /\ IsTag(html[i]) /\ TagOf(html[i]).open
  /\ IsTag(html[j]) /\ ~TagOf(html[j]).open
  /\ OpenDepth(html, i - 1) = OpenDepth(html, j)
  /\ \A n \in i..(j - 1) : OpenDepth(html, n) > OpenDepth(html, j)

\* C26: while well-nested markup is decoded, the marks active after a
\* closing tag are those active before the matching opening tag, and no
\* mark is active when the markup ends.
C26_CloseRestoresActiveMarks ==
  \A r \in Slots : runs[r].pc = "decoded" =>
    /\ \A i, j \in 1..Len(runs[r].orig.s) :
         Matches(runs[r].orig.s, i, j) =>
           Range(MarksAfter(runs[r].orig.s, j)) = Range(MarksAfter(runs[r].orig.s, i - 1))
    /\ MarksAfter(runs[r].orig.s, Len(runs[r].orig.s)) = <<>>

----------------------------------------------------------------------------
(* processPromisesInChunks on its own.  The run's lookups are the promises *)
(* it was given, chunkSize its second argument, awaited the number of      *)
(* chunks whose await has returned and results its results array.          *)

MaxPromises == 4
MaxChunkSize == 3
PromiseStates == {"pending", "fulfilled", "rejected"}
PromiseLists ==
  UNION {{[i \in 1..n |-> [st |-> st[i], v |-> i]] : st \in [1..n -> PromiseStates]} :
           n \in 0..MaxPromises}

InitPromises ==
  /\ queue = <<>>
  /\ runs \in {[r \in {1} |-> [IdleRun EXCEPT !.pc = "chunking", !.lookups = ps,
                                                !.chunkSize = size]] :
               ps \in PromiseLists, size \in 1..MaxChunkSize}
  /\ blockContentMap = <<>>
  /\ uid = 1
  /\ deeplApiKey = Id("key")
  /\ fieldKeyConfig = NoFieldKeyConfig
  /\ translatableFieldKeys = getMergedTranslatableFieldKeys(NoFieldKeyConfig)
  /\ sync = NoSync

\* a promise of the list is fulfilled or rejected
PromiseSettles(r, i) ==
  /\ runs[r].pc = "chunking"
  /\ runs[r].lookups[i].st = "pending"
  /\ \E st \in {"fulfilled", "rejected"} :
       runs' = [runs EXCEPT ![r].lookups[i].st = st]
  /\ UNCHANGED <<queue, blockContentMap, uid, deeplApiKey, fieldKeyConfig,
               translatableFieldKeys, sync>>

\* the promises of the chunk now awaited, as they are in the list
CurrentChunk(run) ==
  [k \in 1..Len(chunkArray(run.lookups, run.chunkSize)[run.awaited + 1]) |->
     run.lookups[chunkArray(run.lookups, run.chunkSize)[run.awaited + 1][k].v]]

\* await Promise.allSettled(chunk) returns: results.push(...chunkResults)
ChunkSettled(r) ==
  /\ runs[r].pc = "chunking"
  /\ runs[r].awaited < Len(chunkArray(runs[r].lookups, runs[r].chunkSize))
  /\ \A k \in 1..Len(CurrentChunk(runs[r])) : CurrentChunk(runs[r])[k].st # "pending"
  /\ runs' = [runs EXCEPT ![r].awaited = @ + 1,
                          ![r].results = @ \o allSettled(CurrentChunk(runs[r]))]
  /\ UNCHANGED <<queue, blockContentMap, uid, deeplApiKey, fieldKeyConfig,
               translatableFieldKeys, sync>>

\* return results
ReturnResults(r) ==
  /\ runs[r].pc = "chunking"
  /\ runs[r].awaited = Len(chunkArray(runs[r].lookups, runs[r].chunkSize))
  /\ runs' = [runs EXCEPT ![r].pc = "returned"]
  /\ UNCHANGED <<queue, blockContentMap, uid, deeplApiKey, fieldKeyConfig,
               translatableFieldKeys, sync>>

NextPromises ==
  \/ \E r \in Slots : \E i \in 1..Len(runs[r].lookups) : PromiseSettles(r, i)
  \/ \E r \in Slots : ChunkSettled(r)
  \/ \E r \in Slots : ReturnResults(r)

SpecPromises == InitPromises /\ [][NextPromises]_vars

\* C27: processPromisesInChunks does not reject, and what it returns is
\* the list Promise.allSettled gives for the same promises: one settled
\* result per promise, in the order of the promises.
C27_SameAsAllSettled ==
  \A r \in Slots :
    /\ runs[r].pc # "failed"
    /\ runs[r].pc = "returned" =>
         /\ \A i \in 1..Len(runs[r].lookups) : runs[r].lookups[i].st # "pending"
         /\ runs[r].results = allSettled(runs[r].lookups)

\* a call with a last chunk shorter than the others and a rejected promise
\* has returned
C27_Witness ==
  \E r \in Slots :
    /\ runs[r].pc = "returned"
    /\ Len(runs[r].lookups) > runs[r].chunkSize
    /\ Len(runs[r].lookups) % runs[r].chunkSize # 0
    /\ \E i \in 1..Len(runs[r].lookups) : runs[r].lookups[i].st = "rejected"
    /\ \E i \in 1..Len(runs[r].lookups) : runs[r].lookups[i].st = "fulfilled"

----------------------------------------------------------------------------
(* The items the rich text of a document yields when every block is        *)
(* processed once.                                                         *)

RECURSIVE SumSeq(_)
SumSeq(counts) == IF counts = <<>> THEN 0 ELSE Head(counts) + SumSeq(Tail(counts))
\* the children of a block that are emitted span by span
ValidSpanCount(children) ==
  IF IsArr(children)
  THEN Cardinality({c \in 1..Len(children.e) : isValidSpan(children.e[c])})
  ELSE 0
\* a block of type block: one markup item, or one item per span
BlockItemCount(block) ==
  IF shouldUseHtmlForBlock(block) THEN 1 ELSE ValidSpanCount(Get(block, "children"))
\* the spans of the rich text held by a field of a custom block
NonBlankSpanCount(children) ==
  IF IsArr(children)
  THEN Cardinality({c \in 1..Len(children.e) :
         /\ Get(children.e[c], "_type") = SPAN_TYPE
         /\ IsStr(Get(children.e[c], "text"))
         /\ ~IsBlank(Get(children.e[c], "text").s)})
  ELSE 0
CustomFieldItemCount(value) ==
  IF IsArr(value) /\ isBlockContent(value)
  THEN SumSeq([b \in 1..Len(value.e) |->
                 IF IsBlockType(value.e[b])
                 THEN NonBlankSpanCount(Get(value.e[b], "children")) ELSE 0])
  ELSE 0
CustomItemCount(block) ==
  SumSeq([i \in 1..Len(Entries(block)) |->
            IF StartsWithUnderscore(Entries(block)[i].k) THEN 0
            ELSE CustomFieldItemCount(Entries(block)[i].v)])
\* a rich-text array: its blocks and its custom blocks
RichArrayItemCount(array) ==
  SumSeq([b \in 1..Len(array.e) |->
            IF IsBlockType(array.e[b]) THEN BlockItemCount(array.e[b])
            ELSE IF Truthy(Get(array.e[b], "_type")) THEN CustomItemCount(array.e[b])
            ELSE 0])
\* a tree: its rich-text arrays outside _translations
RECURSIVE RichItemCount(_)
RichItemCount(node) ==
  IF IsArr(node) /\ isBlockContent(node) THEN RichArrayItemCount(node)
  ELSE SumSeq([i \in 1..Len(Entries(node)) |->
                 IF Entries(node)[i].k = "_translations" THEN 0
                 ELSE RichItemCount(Entries(node)[i].v)])

\* C28: in one collection pass every rich-text block yields its items
\* once: the pass records as many rich-text items as the blocks of the
\* document have.
C28_RichTextBlocksCollectedOnce ==
  \A r \in Slots : runs[r].pc = "translating" =>
    Len(runs[r].records) = RichItemCount(runs[r].doc)

\* the source text of the item a record was made for
SourceOf(run, rec) ==
  run.fields[CHOOSE i \in 1..Len(run.fields) : run.fields[i].key = rec.key].value
\* the span was left as it was, or it holds the translation of an item of
\* its block whose source is the text the span held
OwnTranslationOrUntouched(run, recs, before, after) ==
  \/ Get(after, "text") = Get(before, "text")
  \/ \E l \in 1..Len(recs) :
       /\ Has(run.translationMap, recs[l].key)
       /\ Str(SourceOf(run, recs[l])) = Get(before, "text")
       /\ Get(after, "text") = Str(run.translationMap[recs[l].key])
\* the translation of the item went to a span that held its source
ReachedOwnSpan(run, rec, before, after) ==
  \E c \in 1..Len(before.e) :
    /\ Get(before.e[c], "text") = Str(SourceOf(run, rec))
    /\ Get(after.e[c], "text") = Str(run.translationMap[rec.key])
SpansGetOwnTranslations(run, recs, before, after) ==
  /\ \A c \in 1..Len(before.e) :
       OwnTranslationOrUntouched(run, recs, before.e[c], after.e[c])
  /\ \A l \in 1..Len(recs) :
       Has(run.translationMap, recs[l].key) => ReachedOwnSpan(run, recs[l], before, after)

\* C29: after per-span translations were applied to a block, every span
\* holds its former text or the translation of its own source text, and
\* every translated item of the block sits in a span that held its source.
C29_SpanGetsItsOwnTranslation ==
  \A r \in Slots : runs[r].pc = "rewritten" =>
    \A k \in 1..Len(runs[r].records) :
      (/\ ~runs[r].records[k].isHtml
       /\ IsArr(GetPath(runs[r].before, runs[r].records[k].arrayPath)))
      => SpansGetOwnTranslations(runs[r],
           SpanRecordsOf(runs[r], runs[r].records[k].arrayPath,
                         runs[r].records[k].blockIndex),
           Get(GetPath(runs[r].before, runs[r].records[k].arrayPath).e[
                 runs[r].records[k].blockIndex], "children"),
           Get(GetPath(runs[r].doc, runs[r].records[k].arrayPath).e[
                 runs[r].records[k].blockIndex], "children"))

----------------------------------------------------------------------------
(* syncDocuments: the loop over the other versions of a document           *)

MaxVersions == 2

\* JSON.parse(JSON.stringify(v)): a property that is undefined is left
\* out, an element of an array that is undefined becomes null
RECURSIVE JsonCopy(_)
JsonCopyProps(props) ==
  Obj([i \in 1..Len(props) |-> P(props[i].k, JsonCopy(props[i].v))])
JsonCopy(v) ==
  IF IsObj(v) THEN JsonCopyProps(SelectSeq(v.e, LAMBDA p : p.v # Undef))
  ELSE IF IsArr(v)
  THEN Arr([i \in 1..Len(v.e) |->
              IF v.e[i] = Undef THEN Null ELSE JsonCopy(v.e[i])])
  ELSE v

\* a version of the document in another language, published or a draft
\* that names the published document in _originalId
Version(id, language) ==
  Obj(<<P("_id", Id(id)), P("_type", Id("page")), P("language", Id(language))>>)
Draft(id, originalId, language) ==
  Obj(<<P("_id", Id(id)), P("_originalId", Id(originalId)),
        P("_type", Id("page")), P("language", Id(language))>>)
Versions ==
  {Version("v-de", "de"), Version("v-fr", "fr"), Version("v-es", "es"),
   Draft("drafts.v-de", "v-de", "de"), Null}
SyncDocs == {DocTitle, DocTwoRefs, DocRichRef, DocNull, DocUndefined}

\* The store and the provider answer a request the same way whenever it
\* is made: the store has no answer for 'fr' (every fetch raises), the
\* provider answers 'fr' in lower case and raises for 'es'.
StoreAnswers(language) == language # Id("fr")
ProviderAnswer(language) ==
  IF language = Id("es") THEN "raise"
  ELSE IF language = Id("fr") THEN "plain" ELSE "ok"

InitSync ==
  /\ queue = <<>>
  /\ runs = [r \in {1} |-> IdleRun]
  /\ blockContentMap = <<>>
  /\ uid = 1
  /\ deeplApiKey = Id("key")
  /\ fieldKeyConfig = NoFieldKeyConfig
  /\ translatableFieldKeys = getMergedTranslatableFieldKeys(NoFieldKeyConfig)
  /\ \E document \in SyncDocs :
       \E versions \in Seqs(Versions \cup {document}, MaxVersions) :
         sync = [NoSync EXCEPT !.originalDocument = document,
                               !.otherDocumentVersions = versions]

\* the version the loop is at
CurrentVersion == sync.otherDocumentVersions[sync.index + 1]

\* !doc || typeof doc !== 'object' || !doc._id, or docId === doc._id
Skipped(originalDocument, doc) ==
  \/ ~Truthy(doc) \/ ~TypeofObject(doc) \/ ~Truthy(Get(doc, "_id"))
  \/ Get(originalDocument, "_id") = Get(doc, "_id")

\* the head of an iteration: the deep copy, the checks, and
\* processReferenceObjects up to its await; referenceObjects are the
\* objects of originalDocument, the ids are replaced in the copy
SyncBegin(r) ==
  /\ runs[r].pc = "idle"
  /\ sync.index < Len(sync.otherDocumentVersions)
  /\ IF Skipped(sync.originalDocument, CurrentVersion)
     THEN /\ sync' = [sync EXCEPT !.index = @ + 1]
          /\ UNCHANGED runs
     ELSE /\ runs' = [runs EXCEPT ![r] =
               [IdleRun EXCEPT
                  !.pc = "resolving", !.orig = sync.originalDocument,
                  !.doc = JsonCopy(sync.originalDocument),
                  !.lookups = Lookups(sync.originalDocument,
                     findAllReferenceObjects(sync.originalDocument, <<>>))]]
          /\ UNCHANGED sync
  /\ UNCHANGED <<queue, blockContentMap, uid, deeplApiKey, fieldKeyConfig,
               translatableFieldKeys>>

\* the fetch of one lookup of the iteration settles
SyncLookupComplete(r, i) ==
  /\ sync.index < Len(sync.otherDocumentVersions)
  /\ runs[r].pc = "resolving"
  /\ i \in 1..Len(runs[r].lookups)
  /\ runs[r].lookups[i].st = "inflight"
  /\ runs' = [runs EXCEPT ![r] =
       IF ~StoreAnswers(Get(CurrentVersion, "language"))
       THEN [@ EXCEPT !.lookups[i].st = "raised"]
       ELSE Answered(@, i, loadDocumentTranslationsAndReplace(@.lookups[i].id))]
  /\ UNCHANGED <<queue, blockContentMap, uid, deeplApiKey, fieldKeyConfig,
               translatableFieldKeys, sync>>

\* one await translator.translateText(...) of the iteration
SyncProviderCall(r) ==
  /\ sync.index < Len(sync.otherDocumentVersions)
  /\ runs[r].pc = "translating"
  /\ runs[r].calls # <<>>
  /\ runs' = [runs EXCEPT ![r] =
       AfterCall(@, Head(@.calls), ProviderAnswer(Get(CurrentVersion, "language")))]
  /\ UNCHANGED <<queue, blockContentMap, uid, deeplApiKey, fieldKeyConfig,
               translatableFieldKeys, sync>>

\* const { _id, language, _rev, ..., ...otherFields } = translatedJsonData
STRIPPED_FIELDS ==
  {"_id", "language", "_rev", "__i18n_lang", "__i18n_refs", "_originalId",
   "_translations", "metadata", "_createdAt", "_updatedAt"}
otherFields(translatedJsonData) ==
  Obj(SelectSeq(translatedJsonData.e, LAMBDA p : p.k \notin STRIPPED_FIELDS))

\* client.patch(doc._originalId or doc._id).set({ ...otherFields })
PatchOf(translatedJsonData, doc) ==
  [id |-> IF \E i \in 1..Len(doc.e) : doc.e[i].k = "_originalId"
          THEN Get(doc, "_originalId") ELSE Get(doc, "_id"),
   set |-> otherFields(translatedJsonData)]

\* the patch of the iteration is committed and the loop goes on
SyncPatch(r) ==
  /\ sync.index < Len(sync.otherDocumentVersions)
  /\ runs[r].pc = "rewritten"
  /\ sync' = [sync EXCEPT !.patches = Append(@, PatchOf(runs[r].doc, CurrentVersion)),
                          !.index = @ + 1]
  /\ runs' = [runs EXCEPT ![r] = IdleRun]
  /\ UNCHANGED <<queue, blockContentMap, uid, deeplApiKey, fieldKeyConfig,
               translatableFieldKeys>>

\* a loop that a failure ends, to compare the catch with
ReturnAfterError(frame) ==
  [frame EXCEPT !.index = Len(frame.otherDocumentVersions)]
\* catch (e) { console.error(...) }: the loop goes on with the next version
ContinueAfterError(frame) == [frame EXCEPT !.index = @ + 1]

SyncCatch(r) ==
  /\ sync.index < Len(sync.otherDocumentVersions)
  /\ runs[r].pc = "failed"
  /\ sync' = ContinueAfterError(sync)
  /\ runs' = [runs EXCEPT ![r] = IdleRun]
  /\ UNCHANGED <<queue, blockContentMap, uid, deeplApiKey, fieldKeyConfig,
               translatableFieldKeys>>

NextSync ==
  \/ \E r \in Slots : SyncBegin(r)
  \/ \E r \in Slots : \E i \in 1..Len(runs[r].lookups) : SyncLookupComplete(r, i)
  \/ \E r \in Slots : AwaitChunk(r)
  \/ \E r \in Slots : ResolveDone(r)
  \/ \E r \in Slots : StartTranslate(r)
  \/ \E r \in Slots : SyncProviderCall(r)
  \/ \E r \in Slots : Rewrite(r)
  \/ \E r \in Slots : SyncPatch(r)
  \/ \E r \in Slots : SyncCatch(r)

SpecSync == InitSync /\ [][NextSync]_vars

\* What syncDocuments does for one version when it is the only one: the
\* steps of the iteration from a fresh copy, an empty blockContentMap and
\* the first generated id
RECURSIVE ReplaceFound(_, _, _)
ReplaceFound(documentData, lookups, i) ==
  IF i > Len(lookups) THEN documentData
  ELSE ReplaceFound(
         IF loadDocumentTranslationsAndReplace(lookups[i].id) = Undef
         THEN documentData
         ELSE replaceRefId(documentData, lookups[i].id,
                           loadDocumentTranslationsAndReplace(lookups[i].id)),
         lookups, i + 1)
ProcessedAlone(originalDocument, language) ==
  IF StoreAnswers(language)
  THEN ReplaceFound(JsonCopy(originalDocument),
                    Lookups(originalDocument,
                            findAllReferenceObjects(originalDocument, <<>>)), 1)
  ELSE JsonCopy(originalDocument)
RECURSIVE AllCalls(_, _)
AllCalls(run, outcome) ==
  IF run.pc = "failed" \/ run.calls = <<>> THEN run
  ELSE AllCalls(AfterCall(run, Head(run.calls), outcome), outcome)
NoPatch == [id |-> Null, set |-> Null]
RewrittenAlone(document, bcm, run, doc) ==
  IF run.pc = "failed" THEN NoPatch
  ELSE PatchOf(replaceTranslations(document, RewriteContext(run, bcm), <<>>), doc)
TranslatedAlone(document, st, doc) ==
  IF st.raised THEN NoPatch
  ELSE RewrittenAlone(document, st.bcm,
         AllCalls([IdleRun EXCEPT !.pc = "translating", !.doc = document,
                     !.fields = st.fields, !.arrays = st.arrays,
                     !.records = st.bcm,
                     !.calls = ProviderCalls(st.fields, st.arrays)],
                  ProviderAnswer(Get(doc, "language"))),
         doc)
SolePatch(document, doc) ==
  TranslatedAlone(document,
    mapFieldsToTranslate(document, Get(document, "_type"), <<>>,
                         CollectorState(<<>>, 1), translatableFieldKeys,
                         DEFAULT_TRANSLATABLE_ARRAY_FIELD_KEYS),
    doc)
Issued(patch) == IF patch = NoPatch THEN <<>> ELSE <<patch>>
\* the patches of the first n versions, each as if it were the only one
RECURSIVE SolePatches(_, _, _)
SolePatches(originalDocument, versions, n) ==
  IF n = 0 THEN <<>>
  ELSE SolePatches(originalDocument, versions, n - 1)
       \o (IF Skipped(originalDocument, versions[n]) THEN <<>>
           ELSE Issued(SolePatch(ProcessedAlone(originalDocument,
                                                Get(versions[n], "language")),
                                 versions[n])))

\* C30: the patches syncDocuments has issued are, version by version, the
\* patches each version gets when it is the only one processed; a version
\* that failed or was rewritten earlier neither changes nor prevents the
\* patch of a later one.
C30_PatchAsIfOnlyVersion ==
  sync.patches = SolePatches(sync.originalDocument, sync.otherDocumentVersions,
                             sync.index)

\* the first version failed at the provider, the second was patched with
\* translated fields
C30_Witness ==
  /\ sync.index = 2
  /\ ~Skipped(sync.originalDocument, sync.otherDocumentVersions[1])
  /\ Get(sync.otherDocumentVersions[1], "language") = Id("es")
  /\ Len(sync.patches) = 1
  /\ sync.patches[1].set # otherFields(sync.originalDocument)
  /\ findAllReferenceObjects(sync.originalDocument, <<>>) # <<>>

====
